---- MODULE Spec2Model ----
(***************************************************************************)
(* Speed Tune content-script controller (src/content.js).                  *)
(*                                                                         *)
(* One SpeedTuneController attached to one page.  The page is a finite set *)
(* of <video> elements that the page mounts, removes, plays, pauses, ends, *)
(* scrolls and re-rates; the controller reacts through its timers,         *)
(* observers and listeners.  Rates are integers in thousandths (1000 is    *)
(* 1.0x), so that rounding to hundredths and the 0.01 drift epsilon are    *)
(* computed and not assumed.                                               *)
(***************************************************************************)
EXTENDS Integers, Sequences, FiniteSets, TLC

\* ------------------------------------------------------------------ bounds
NumVideos == 2
MaxOps == 2
MaxFaults == 2

\* ------------------------------------------------------- program constants
SPEED_MIN == 100
SPEED_MAX == 16000
DEFAULT_SPEED == 1000
EPSILON == 10
STEP_SMALL == 100
STEP_LARGE == 1000
MIN_W == 380
MIN_H == 214
MEANINGFUL_W == 200
MEANINGFUL_H == 150
DEBOUNCE_MS == 250
SPEED_INCREMENT_SMALL == 100
SPEED_INCREMENT_LARGE == 1000
\* granularity of the clock the debounce delay is measured with
TimeStep == DEBOUNCE_MS \div 2

Null == 0
V == 1..NumVideos

Positions == {"top-left", "top-right", "bottom-left", "bottom-right", "center"}

\* rendered boxes the page gives its videos: width, height
Boxes == [small |-> <<300, 200>>, medium |-> <<400, 300>>, large |-> <<800, 450>>]
Sizes == {"small", "medium", "large"}
Kinds == {"main", "iframe"}
\* playback phase of an element:
\*   unstarted: paused at currentTime 0, readyState >= 2
\*   loading  : play() was called (paused = false) but readyState < 2
\*   playing  : not paused, readyState >= 2
\*   paused   : paused at currentTime > 0, readyState >= 2
\*   ended    : ended = true (paused)
Phases == {"unstarted", "loading", "playing", "paused", "ended"}
\* computed style of an element: rendered normally, display: none,
\* visibility: hidden, or opacity below 0.01
Styles == {"shown", "displayNone", "visibilityHidden", "opacityZero"}

\* arguments given to setSpeed(speed, ...), in thousandths
\* the calls setSpeed(speed, showConstantIndicator, position) the popup and the
\* background make, speed in thousandths
SetSpeedCalls == {<<2004, TRUE, "center">>, <<17000, FALSE, "top-left">>}
\* rates a page script may set on its own videos
PageRates == {0, 3000}

\* the settings record in chrome.storage.sync as the controller can find it
StoreNone == [present |-> FALSE, err |-> FALSE, speed |-> 0, saveSpeed |-> FALSE,
              showIndicator |-> TRUE, indicatorPosition |-> "top-left"]
StoreError == [StoreNone EXCEPT !.err = TRUE]
StoreSaved == [present |-> TRUE, err |-> FALSE, speed |-> 2000, saveSpeed |-> TRUE,
               showIndicator |-> TRUE, indicatorPosition |-> "center"]
StoreOff == [StoreSaved EXCEPT !.saveSpeed = FALSE, !.speed = 3000, !.showIndicator = FALSE]
StoreWild == [StoreSaved EXCEPT !.speed = 20000]
Stores == {StoreNone, StoreError, StoreSaved, StoreOff, StoreWild}

NoCall == [set |-> FALSE, target |-> 0, position |-> "none"]

\* safelySetSpeed: the two copies and their constants
MAX_RETRIES == 6
BACKOFF_MS == 250
SAFE_EXEC_MAX_RETRIES == 6
SAFE_EXEC_BACKOFF_MS == 250
Copies == {"worker", "popup"}
maxRetries(copy) == IF copy = "worker" THEN MAX_RETRIES ELSE SAFE_EXEC_MAX_RETRIES
backoffMs(copy) == IF copy = "worker" THEN BACKOFF_MS ELSE SAFE_EXEC_BACKOFF_MS
\* a safelySetSpeed call: where it stands (idle, about to inject, waiting on
\* the backoff timeout, resolved), its loop variable, the delay of the armed
\* timeout, the executeScript calls made, what the last one reported, whether
\* the last one called controller.setSpeed and what it found in the tab, and
\* the value the promise resolved with
ExecIdle ==
  [pc |-> "idle", copy |-> "worker", call |-> <<0, FALSE, "none">>, attempt |-> 0,
   wait |-> 0, made |-> 0, last |-> "none", invoked |-> FALSE,
   sawController |-> FALSE, sawVideos |-> FALSE, resolved |-> "pending"]
\* checkPrimaryVideo of the popup
MAX_TRIES == 5
RETRY_MS == 250
\* a checkPrimaryVideo call: where it stands (idle, about to inject, waiting
\* on the retry timeout, returned), its loop variable, the delay of the armed
\* timeout, the probes made, what the last one answered, the value returned,
\* and the retry delays that have gone by since the call
ProbeIdle ==
  [pc |-> "idle", i |-> 0, wait |-> 0, made |-> 0, last |-> "none",
   returned |-> "pending", elapsed |-> 0]
\* places an element can sit in: the document's light tree, there inside a
\* container the generic player selectors match, a shadow root of the document,
\* a shadow root nested in that one, one of two same-origin iframes
Places == {"document", "player", "shadow", "nested", "frame1", "frame2"}
ScanIdle ==
  [place |-> [v \in V |-> "document"], faults |-> {}, result |-> <<>>, called |-> FALSE]

\* what a caller of one of the controller's three queries was handed back
NoAnswer == [op |-> "none", video |-> Null, has |-> FALSE, speed |-> 0]

ZeroFx ==
  [clears |-> 0, disconnects |-> 0, unlistens |-> 0, removes |-> 0,
   prevented |-> 0, stopped |-> 0]

\* ------------------------------------------------------------------- state
\* the controller object's fields (constructor) and window.speedTuneController
VARIABLES
  currentSpeed, videos, observer, constantIndicator,
  constantIndicatorUpdateHandlers, indicatorPrimaryVideo,
  indicatorRecomputeIntervalId, showConstantIndicator, indicatorPosition,
  saveSpeedEnabled, debounceTimer, speedCheckIntervalId, scanIntervalId,
  videoListeners, urlChangeObserver, speedTuneController
\* the page and the browser: elements, registered listeners, the overlay nodes
\* attached to the body, live timers, pending callbacks, the settings store
VARIABLES
  mounted, kind, size, style, phase, live, inView, rate, attached, hidden,
  observing, overlays, ovText, ovPos, ovVideo, winHandlers, reconTimers,
  scanTimers, speedTimers, debounceTimers, retryPending, urlTimeouts,
  rateTimeouts, loadPending, store, storeQueue
\* milliseconds left on the pending debounce timeout
VARIABLES
  debounceLeft
\* where in the page each element sits, and the getAllVideos call under test:
\* the accesses that threw during it and the array it returned
VARIABLES
  scan
\* the value the last query of the controller returned to its caller
VARIABLES
  answer
\* what the last callback did: its name, the largest number of overlay nodes
\* attached at any point inside it, its playbackRate writes, its releases
VARIABLES
  lastOp, peak, writes, fx
\* the setSpeed(r, true, p) call made while the page had no video, until another
\* setSpeed call or a chord follows it
VARIABLES
  wanted
\* the extension's other contexts, seen from the tab: whether the content
\* script has run in it, the safelySetSpeed call in progress (service worker
\* or popup), the popup's checkPrimaryVideo call in progress
VARIABLES
  injected, exec, probe
\* exploration budget and history
VARIABLES
  everCandidate, ops

vars ==
  <<currentSpeed, videos, observer, constantIndicator,
    constantIndicatorUpdateHandlers, indicatorPrimaryVideo,
    indicatorRecomputeIntervalId, showConstantIndicator, indicatorPosition,
    saveSpeedEnabled, debounceTimer, speedCheckIntervalId, scanIntervalId,
    videoListeners, urlChangeObserver, speedTuneController, mounted, kind,
    size, style, phase, live, inView, rate, attached, hidden, observing, overlays,
    ovText, ovPos, ovVideo, winHandlers, reconTimers, scanTimers,
    speedTimers, debounceTimers, retryPending, urlTimeouts, rateTimeouts,
    loadPending, store, storeQueue, debounceLeft, scan, answer, lastOp, peak,
    writes, fx,
    wanted, injected, exec, probe, everCandidate, ops>>

\* the current state as one record, the form the operations work on
Cur ==
  [currentSpeed |-> currentSpeed,
   videos |-> videos,
   observer |-> observer,
   constantIndicator |-> constantIndicator,
   constantIndicatorUpdateHandlers |-> constantIndicatorUpdateHandlers,
   indicatorPrimaryVideo |-> indicatorPrimaryVideo,
   indicatorRecomputeIntervalId |-> indicatorRecomputeIntervalId,
   showConstantIndicator |-> showConstantIndicator,
   indicatorPosition |-> indicatorPosition,
   saveSpeedEnabled |-> saveSpeedEnabled,
   debounceTimer |-> debounceTimer,
   speedCheckIntervalId |-> speedCheckIntervalId,
   scanIntervalId |-> scanIntervalId,
   videoListeners |-> videoListeners,
   urlChangeObserver |-> urlChangeObserver,
   speedTuneController |-> speedTuneController,
   mounted |-> mounted,
   kind |-> kind,
   size |-> size,
   style |-> style,
   phase |-> phase,
   live |-> live,
   inView |-> inView,
   rate |-> rate,
   attached |-> attached,
   hidden |-> hidden,
   observing |-> observing,
   overlays |-> overlays,
   ovText |-> ovText,
   ovPos |-> ovPos,
   ovVideo |-> ovVideo,
   winHandlers |-> winHandlers,
   reconTimers |-> reconTimers,
   scanTimers |-> scanTimers,
   speedTimers |-> speedTimers,
   debounceTimers |-> debounceTimers,
   retryPending |-> retryPending,
   urlTimeouts |-> urlTimeouts,
   rateTimeouts |-> rateTimeouts,
   loadPending |-> loadPending,
   store |-> store,
   storeQueue |-> storeQueue,
   debounceLeft |-> debounceLeft,
   scan |-> scan,
   answer |-> answer,
   lastOp |-> lastOp,
   peak |-> peak,
   writes |-> writes,
   fx |-> fx,
   wanted |-> wanted,
   injected |-> injected,
   exec |-> exec,
   probe |-> probe]

Max(a, b) == IF a > b THEN a ELSE b
Min(a, b) == IF a < b THEN a ELSE b
Abs(a) == IF a < 0 THEN -a ELSE a

\* Math.round(x * 100) / 100 on thousandths
round2(m) == ((m + 5) \div 10) * 10
clamp(m) == Max(SPEED_MIN, Min(SPEED_MAX, m))
\* Number.prototype.toFixed(1), result in tenths
toFixed1(m) == (m + 50) \div 100
\* (video.playbackRate || 1)
rateOr1(r) == IF r = 0 THEN 1000 ELSE r

\* ---------------------------------------------------------- DOM predicates
contains(s, v) == v # Null /\ s.mounted[v] /\ s.kind[v] = "main"
paused(s, v) == s.phase[v] \in {"unstarted", "paused", "ended"}
readyState2(s, v) == s.phase[v] # "loading"
atZero(s, v) == s.phase[v] \in {"unstarted", "loading"}
ended(s, v) == s.phase[v] = "ended"
\* getBoundingClientRect: an element that is detached or has display: none has
\* an empty box; visibility and opacity leave the box as laid out
rendered(s, v) == s.mounted[v] /\ s.style[v] # "displayNone"
width(s, v) == IF rendered(s, v) THEN Boxes[s.size[v]][1] ELSE 0
height(s, v) == IF rendered(s, v) THEN Boxes[s.size[v]][2] ELSE 0
area(s, v) == width(s, v) * height(s, v)
inViewport(s, v) == rendered(s, v) /\ s.inView[v]

Ids == [i \in 1..NumVideos |-> i]
getAllVideos(s) ==
  SelectSeq(Ids, LAMBDA v : s.mounted[v] /\ s.kind[v] = "main")
    \o SelectSeq(Ids, LAMBDA v : s.mounted[v] /\ s.kind[v] = "iframe")

isInMainDocument(s, v) == v # Null /\ s.kind[v] = "main"
\* defined by the controller and called from nowhere
isMeaningfullyVisible(s, v) ==
  /\ contains(s, v)
  /\ s.style[v] = "shown"
  /\ width(s, v) >= MEANINGFUL_W /\ height(s, v) >= MEANINGFUL_H
isLiveVideo(s, v) == contains(s, v) /\ s.live[v]
isLikelyMainPlayer(s, v) ==
  /\ contains(s, v)
  /\ ~ended(s, v)
  /\ readyState2(s, v)
  /\ ~(paused(s, v) /\ atZero(s, v))

isCandidate(s, v) ==
  /\ isInMainDocument(s, v)
  /\ ~isLiveVideo(s, v)
  /\ ~ended(s, v)
  /\ width(s, v) >= MIN_W /\ height(s, v) >= MIN_H
getCandidateVideos(s) == SelectSeq(getAllVideos(s), LAMBDA v : isCandidate(s, v))

RECURSIVE reduceLargest(_, _, _)
reduceLargest(s, a, rest) ==
  IF rest = <<>> THEN a
  ELSE reduceLargest(s, IF area(s, a) > area(s, Head(rest)) THEN a ELSE Head(rest), Tail(rest))

\* selectPrimaryVideo without the preference for likely main players
selectPrimaryVideo_NoPreference(s) ==
  LET candidates == getCandidateVideos(s)
  IN IF Len(candidates) = 0 THEN Null
     ELSE reduceLargest(s, Head(candidates), Tail(candidates))

selectPrimaryVideo(s) ==
  LET candidates == getCandidateVideos(s)
      mainLike == SelectSeq(candidates, LAMBDA v : isLikelyMainPlayer(s, v))
      pool == IF Len(mainLike) > 0 THEN mainLike ELSE candidates
  IN IF Len(candidates) = 0 THEN Null ELSE reduceLargest(s, Head(pool), Tail(pool))

\* getPrimaryVideoForIndicator that takes the largest video of the page without
\* the candidate filter
getPrimaryVideoForIndicator_Unfiltered(s) ==
  LET all == getAllVideos(s)
  IN IF Len(all) = 0 THEN Null ELSE reduceLargest(s, Head(all), Tail(all))

getPrimaryVideoForIndicator(s) == selectPrimaryVideo(s)
hasPrimaryVideo(s) == getPrimaryVideoForIndicator(s) # Null

shouldShowIndicatorForVideo(s, v) ==
  /\ contains(s, v)
  /\ readyState2(s, v)
  /\ ~(paused(s, v) /\ atZero(s, v))
  /\ inViewport(s, v)

\* the element the write paths call "active"
activeVideo(s) ==
  IF s.indicatorPrimaryVideo # Null THEN s.indicatorPrimaryVideo ELSE selectPrimaryVideo(s)

\* video.playbackRate = value.  The write is logged with whether the target
\* was the primary (recorded or selected) and whether it was live at that
\* moment.
setPlaybackRate(s, v, value) ==
  LET entry == [v |-> v, value |-> value,
                primary |-> (v = s.indicatorPrimaryVideo \/ v = selectPrimaryVideo(s)),
                live |-> s.live[v]]
  IN [s EXCEPT !.writes = @ \cup {entry}, !.rate[v] = value]

\* ------------------------------------------------------------- indicator
positionConstantIndicator(s, v) ==
  IF ~s.constantIndicator \/ ~contains(s, v) THEN s
  ELSE [s EXCEPT !.ovPos = s.indicatorPosition, !.ovVideo = v]

\* hideConstantIndicator that leaves the reconcile interval running
hideConstantIndicator_KeepsInterval(s) ==
  IF ~s.constantIndicator THEN s
  ELSE [s EXCEPT
          !.constantIndicator = FALSE,
          !.constantIndicatorUpdateHandlers = 0,
          !.indicatorPrimaryVideo = Null,
          !.overlays = @ - 1,
          !.ovText = 0, !.ovPos = "none", !.ovVideo = Null,
          !.winHandlers = @ - s.constantIndicatorUpdateHandlers,
          !.fx = [@ EXCEPT !.removes = @ + 1,
                           !.unlistens = @ + s.constantIndicatorUpdateHandlers]]

hideConstantIndicator(s) ==
  IF ~s.constantIndicator THEN s
  ELSE [s EXCEPT
          !.reconTimers = IF s.indicatorRecomputeIntervalId THEN @ - 1 ELSE @,
          !.indicatorRecomputeIntervalId = FALSE,
          !.constantIndicator = FALSE,
          !.constantIndicatorUpdateHandlers = 0,
          !.indicatorPrimaryVideo = Null,
          !.overlays = @ - 1,
          !.ovText = 0, !.ovPos = "none", !.ovVideo = Null,
          !.winHandlers = @ - s.constantIndicatorUpdateHandlers,
          !.fx = [@ EXCEPT !.clears = IF s.indicatorRecomputeIntervalId THEN @ + 1 ELSE @,
                           !.removes = @ + 1,
                           !.unlistens = @ + s.constantIndicatorUpdateHandlers]]

createConstantIndicator(s, v) ==
  IF ~s.showConstantIndicator THEN s
  ELSE LET s1 == [s EXCEPT !.constantIndicator = TRUE,
                           !.ovText = toFixed1(s.currentSpeed),
                           !.ovPos = "none", !.ovVideo = Null,
                           !.indicatorPrimaryVideo = v]
           s2 == positionConstantIndicator(s1, v)
       IN [s2 EXCEPT !.overlays = @ + 1,
                     !.peak = Max(@, s2.overlays + 1),
                     !.constantIndicatorUpdateHandlers = @ + 1,
                     !.winHandlers = @ + 1,
                     !.reconTimers = @ + 1,
                     !.indicatorRecomputeIntervalId = TRUE]

\* showConstantSpeedIndicator that repositions an existing overlay and leaves
\* its text as it was
showConstantSpeedIndicator_StaleText(s) ==
  LET targetVideo == getPrimaryVideoForIndicator(s) IN
  IF ~s.showConstantIndicator THEN hideConstantIndicator(s)
  ELSE IF targetVideo = Null THEN hideConstantIndicator(s)
  ELSE IF ~shouldShowIndicatorForVideo(s, targetVideo) THEN hideConstantIndicator(s)
  ELSE IF s.constantIndicator
       THEN positionConstantIndicator(
              [s EXCEPT !.indicatorPrimaryVideo = targetVideo], targetVideo)
       ELSE createConstantIndicator(s, targetVideo)

showConstantSpeedIndicator(s) ==
  LET targetVideo == getPrimaryVideoForIndicator(s) IN
  IF ~s.showConstantIndicator THEN hideConstantIndicator(s)
  ELSE IF targetVideo = Null THEN hideConstantIndicator(s)
  ELSE IF ~shouldShowIndicatorForVideo(s, targetVideo) THEN hideConstantIndicator(s)
  ELSE IF s.constantIndicator
       THEN positionConstantIndicator(
              [s EXCEPT !.indicatorPrimaryVideo = targetVideo,
                        !.ovText = toFixed1(s.currentSpeed)], targetVideo)
       ELSE createConstantIndicator(s, targetVideo)

\* hidePopupToast is a no-op here: showPopupSpeedToast is never called, so
\* popupToast and popupToastTimeout stay null for the controller's lifetime.
updateIndicators(s) ==
  IF Len(getAllVideos(s)) = 0 THEN hideConstantIndicator(s)
  ELSE IF ~s.showConstantIndicator THEN hideConstantIndicator(s)
  ELSE showConstantSpeedIndicator(s)

\* switchActiveVideo that attaches the new overlay without detaching the old one
switchActiveVideo_NoDetach(s, v) ==
  IF v = s.indicatorPrimaryVideo THEN s
  ELSE IF ~s.showConstantIndicator THEN s
  ELSE IF ~isCandidate(s, v) \/ ~s.mounted[v] THEN s
  ELSE LET s2 == [s EXCEPT !.indicatorPrimaryVideo = v]
           s3 == IF ~isLiveVideo(s2, v) THEN setPlaybackRate(s2, v, s2.currentSpeed) ELSE s2
       IN createConstantIndicator(s3, v)

switchActiveVideo(s, v) ==
  IF v = s.indicatorPrimaryVideo THEN s
  ELSE IF ~s.showConstantIndicator THEN s
  ELSE IF ~isCandidate(s, v) \/ ~s.mounted[v] THEN s
  ELSE LET s1 == hideConstantIndicator(s)
           s2 == [s1 EXCEPT !.indicatorPrimaryVideo = v]
           s3 == IF ~isLiveVideo(s2, v) THEN setPlaybackRate(s2, v, s2.currentSpeed) ELSE s2
       IN createConstantIndicator(s3, v)

\* ----------------------------------------------------------- speed control
setSpeed(s, speed, show, position) ==
  LET s1 == [s EXCEPT !.currentSpeed = clamp(round2(speed)),
                      !.showConstantIndicator = show,
                      !.indicatorPosition = position]
      s2 == IF s.showConstantIndicator /\ ~show THEN hideConstantIndicator(s1) ELSE s1
      active == activeVideo(s2)
      s3 == IF active # Null /\ contains(s2, active) /\ ~isLiveVideo(s2, active)
            THEN setPlaybackRate([s2 EXCEPT !.videos = @ \cup {active}], active, s2.currentSpeed)
            ELSE s2
      s4 == [s3 EXCEPT !.videos = @ \cup {v \in V : s3.mounted[v] /\ contains(s3, v)}]
  IN updateIndicators(s4)

getCurrentSpeed(s) == s.currentSpeed

\* the three queries as calls: what each leaves of the controller and the page,
\* and the value handed to the caller.  None of the three bodies, nor
\* getCandidateVideos, getAllVideos, isLikelyMainPlayer and isInMainDocument
\* under them, assigns a field or a playbackRate.
selectPrimaryVideoCall_Caches(s) ==
  [s EXCEPT !.answer = [NoAnswer EXCEPT !.op = "selectPrimaryVideo",
                                        !.video = selectPrimaryVideo(s)],
            !.indicatorPrimaryVideo = selectPrimaryVideo(s)]
selectPrimaryVideoCall(s) ==
  [s EXCEPT !.answer = [NoAnswer EXCEPT !.op = "selectPrimaryVideo",
                                        !.video = selectPrimaryVideo(s)]]
hasPrimaryVideoCall(s) ==
  [s EXCEPT !.answer = [NoAnswer EXCEPT !.op = "hasPrimaryVideo",
                                        !.has = hasPrimaryVideo(s)]]
getCurrentSpeedCall(s) ==
  [s EXCEPT !.answer = [NoAnswer EXCEPT !.op = "getCurrentSpeed",
                                        !.speed = getCurrentSpeed(s)]]

\* ------------------------------------------------------------ safe executor
\* the injected function without the test of the tracked set
injectedSetSpeed_NoVideoTest(s) ==
  LET call == s.exec.call
      seen == [s EXCEPT !.exec.sawController = s.speedTuneController,
                        !.exec.sawVideos = s.videos # {}]
  IN IF ~s.speedTuneController
     THEN [seen EXCEPT !.exec.last = "not-ready", !.exec.invoked = FALSE]
     ELSE [setSpeed(seen, call[1], call[2], call[3])
             EXCEPT !.exec.last = "ok", !.exec.invoked = TRUE]

\* the function safelySetSpeed injects into the tab
injectedSetSpeed(s) ==
  LET call == s.exec.call
      seen == [s EXCEPT !.exec.sawController = s.speedTuneController,
                        !.exec.sawVideos = s.videos # {}]
  IN IF ~s.speedTuneController
     THEN [seen EXCEPT !.exec.last = "not-ready", !.exec.invoked = FALSE]
     ELSE IF s.videos = {}
     THEN [seen EXCEPT !.exec.last = "not-ready", !.exec.invoked = FALSE]
     ELSE [setSpeed(seen, call[1], call[2], call[3])
             EXCEPT !.exec.last = "ok", !.exec.invoked = TRUE]

\* one turn of the loop of safelySetSpeed up to its next await: executeScript
\* (it throws on a restricted, navigating or discarded tab), the test of the
\* result, then return true, the backoff timeout, or return false after the
\* last turn
safelyAttempt(s, throws) ==
  LET s1 == [s EXCEPT !.exec.made = @ + 1]
      s2 == IF throws
            THEN [s1 EXCEPT !.exec.last = "threw", !.exec.invoked = FALSE,
                            !.exec.sawController = FALSE, !.exec.sawVideos = FALSE]
            ELSE injectedSetSpeed(s1)
      e == s2.exec
  IN IF e.last = "ok"
     THEN [s2 EXCEPT !.exec.pc = "resolved", !.exec.resolved = "true"]
     ELSE IF e.attempt < maxRetries(e.copy) - 1
     THEN [s2 EXCEPT !.exec.pc = "backoff",
                     !.exec.wait = backoffMs(e.copy) * (e.attempt + 1)]
     ELSE [s2 EXCEPT !.exec.pc = "resolved", !.exec.resolved = "false",
                     !.exec.attempt = @ + 1]

\* the backoff timeout fires: attempt++ and the loop test
safelyResume(s) ==
  IF s.exec.attempt + 1 < maxRetries(s.exec.copy)
  THEN [s EXCEPT !.exec.pc = "inject", !.exec.wait = 0, !.exec.attempt = @ + 1]
  ELSE [s EXCEPT !.exec.pc = "resolved", !.exec.wait = 0, !.exec.attempt = @ + 1,
                 !.exec.resolved = "false"]

\* ---------------------------------------------------------- failing accesses
\* the accesses to an element that may throw (a detached or inaccessible node):
\* getBoundingClientRect, the playbackRate setter, document.contains.  f gives
\* for every element the accesses that throw on it.
AccessKinds == {"rect", "rate", "contains"}
Faults == [V -> SUBSET AccessKinds]
NoFault == [v \in V |-> {}]
fails(f, v, k) == v # Null /\ k \in f[v]

\* isLiveVideo and isLikelyMainPlayer catch what document.contains throws and
\* return false; getCandidateVideos catches what getBoundingClientRect throws
\* and drops the element
isLiveVideoUnder(s, f, v) == ~fails(f, v, "contains") /\ isLiveVideo(s, v)
isLikelyMainPlayerUnder(s, f, v) == ~fails(f, v, "contains") /\ isLikelyMainPlayer(s, v)
isCandidateUnder(s, f, v) ==
  /\ isInMainDocument(s, v)
  /\ ~isLiveVideoUnder(s, f, v)
  /\ ~ended(s, v)
  /\ ~fails(f, v, "rect")
  /\ width(s, v) >= MIN_W /\ height(s, v) >= MIN_H
poolUnder(s, f) ==
  LET candidates == SelectSeq(getAllVideos(s), LAMBDA v : isCandidateUnder(s, f, v))
      mainLike == SelectSeq(candidates, LAMBDA v : isLikelyMainPlayerUnder(s, f, v))
  IN IF Len(mainLike) > 0 THEN mainLike ELSE candidates
selectPrimaryVideoUnder(s, f) ==
  IF Len(poolUnder(s, f)) = 0 THEN Null
  ELSE reduceLargest(s, Head(poolUnder(s, f)), Tail(poolUnder(s, f)))
\* the reducer of selectPrimaryVideo reads the boxes of the pool outside any try
selectPrimaryVideoThrows(s, f) ==
  /\ Len(poolUnder(s, f)) >= 2
  /\ \E k \in 1..Len(poolUnder(s, f)) : fails(f, poolUnder(s, f)[k], "rect")
hasPrimaryVideoThrows(s, f) == selectPrimaryVideoThrows(s, f)
\* getCurrentSpeed reads a field of the controller
getCurrentSpeedThrows(s, f) == FALSE
\* setSpeed has no try: document.contains(active), the playbackRate write, the
\* document.contains(v) of the tracking loop and the document.contains of
\* shouldShowIndicatorForVideo are reached unprotected
setSpeedThrows(s, show, f) ==
  LET s1 == [s EXCEPT !.showConstantIndicator = show]
      s2 == IF s.showConstantIndicator /\ ~show THEN hideConstantIndicator(s1) ELSE s1
      recorded == s2.indicatorPrimaryVideo
      active == IF recorded # Null THEN recorded ELSE selectPrimaryVideoUnder(s2, f)
      target == selectPrimaryVideoUnder(s2, f)
  IN \/ recorded = Null /\ selectPrimaryVideoThrows(s2, f)
     \/ fails(f, active, "contains")
     \/ /\ active # Null /\ contains(s2, active) /\ ~isLiveVideoUnder(s2, f, active)
        /\ fails(f, active, "rate")
     \/ \E k \in 1..Len(getAllVideos(s2)) : fails(f, getAllVideos(s2)[k], "contains")
     \/ /\ Len(getAllVideos(s2)) > 0 /\ show
        /\ selectPrimaryVideoThrows(s2, f) \/ fails(f, target, "contains")

\* ------------------------------------------- getAllVideos, source by source
\* the accesses of getAllVideos that can throw: document.querySelectorAll("video")
\* of the first block, the traversal's querySelectorAll("*") on the document,
\* the shadowRoot of the outer host, the traversal inside that shadow root,
\* document.querySelectorAll("iframe"), the contentDocument of either iframe,
\* the first generic selector, the fallback query of getPlatformSpecificVideos
SourceFaults ==
  {"query", "walk", "host", "inner", "frames", "frame1", "frame2", "generic", "fallback"}

\* the elements of the page that sit in one of the places, in document order
at(s, places) ==
  SelectSeq(Ids, LAMBDA v : s.mounted[v] /\ s.scan.place[v] \in places)

documentVideos(s, f) ==
  IF "query" \in f THEN <<>> ELSE at(s, {"document", "player"})

traverseShadowDOM(s, f) ==
  IF "walk" \in f \/ "host" \in f THEN <<>>
  ELSE at(s, {"shadow"}) \o (IF "inner" \in f THEN <<>> ELSE at(s, {"nested"}))

iframeVideos(s, f) ==
  IF "frames" \in f THEN <<>>
  ELSE (IF "frame1" \in f THEN <<>> ELSE at(s, {"frame1"}))
         \o (IF "frame2" \in f THEN <<>> ELSE at(s, {"frame2"}))

\* the selector results pushed so far are returned when a later query throws
getPlatformSpecificVideos(s, f) ==
  IF "generic" \in f THEN <<>>
  ELSE at(s, {"player"})
         \o (IF "fallback" \in f THEN <<>>
             ELSE SelectSeq(at(s, {"document", "player"}),
                            LAMBDA v : width(s, v) > 200 /\ height(s, v) > 100))

\* [...new Set(videos)]: first occurrences, in insertion order
RECURSIVE newSet(_, _)
newSet(seq, seen) ==
  IF seq = <<>> THEN <<>>
  ELSE IF Head(seq) \in seen THEN newSet(Tail(seq), seen)
  ELSE <<Head(seq)>> \o newSet(Tail(seq), seen \cup {Head(seq)})

\* getAllVideos that returns the array as pushed
getAllVideosUnder_NoSet(s, f) ==
  documentVideos(s, f) \o traverseShadowDOM(s, f) \o iframeVideos(s, f)
    \o getPlatformSpecificVideos(s, f)

\* getAllVideos on the page as placed, with the accesses in f throwing
getAllVideosUnder(s, f) ==
  newSet(documentVideos(s, f) \o traverseShadowDOM(s, f) \o iframeVideos(s, f)
           \o getPlatformSpecificVideos(s, f), {})

\* ------------------------------------------------------------- discovery
removeVideoListeners(s, v) ==
  IF v \notin s.videoListeners THEN s
  ELSE [s EXCEPT !.attached = @ \ {v},
                 !.videoListeners = @ \ {v},
                 !.videos = @ \ {v},
                 !.fx = [@ EXCEPT !.unlistens = @ + 1]]

RECURSIVE pruneAll(_, _)
pruneAll(s, vs) ==
  IF vs = {} THEN s
  ELSE LET v == CHOOSE x \in vs : TRUE
       IN pruneAll(IF ~contains(s, v) THEN removeVideoListeners(s, v) ELSE s, vs \ {v})

\* one iteration of the loop over allVideos in findAndSetupVideos
setupVideo(s, v, primary) ==
  IF ~contains(s, v) THEN s
  ELSE IF v \notin s.videos
  THEN LET s1 == [s EXCEPT !.videos = @ \cup {v}]
           s2 == IF ~isLiveVideo(s1, v) /\ v = primary
                 THEN setPlaybackRate(s1, v, s1.currentSpeed) ELSE s1
       IN [s2 EXCEPT !.attached = @ \cup {v}, !.videoListeners = @ \cup {v}]
  ELSE IF ~isLiveVideo(s, v) /\ v = primary
          /\ contains(s, v) /\ Abs(rateOr1(s.rate[v]) - s.currentSpeed) > EPSILON
       THEN setPlaybackRate(s, v, s.currentSpeed)
       ELSE s

RECURSIVE setupAll(_, _, _)
setupAll(s, seq, primary) ==
  IF seq = <<>> THEN s
  ELSE setupAll(setupVideo(s, Head(seq), primary), Tail(seq), primary)

findAndSetupVideos(s) ==
  LET allVideos == getAllVideos(s)
      s1 == pruneAll(s, s.videos)
      primary == selectPrimaryVideo(s1)
      s2 == setupAll(s1, allVideos, primary)
  IN IF Len(allVideos) > 0 THEN updateIndicators(s2) ELSE hideConstantIndicator(s2)

\* scheduleFindVideos that arms the new timeout without clearing the old one
scheduleFindVideos_NoClear(s) ==
  [s EXCEPT !.debounceTimers = @ + 1,
            !.debounceTimer = TRUE,
            !.debounceLeft = DEBOUNCE_MS]

scheduleFindVideos(s) ==
  [s EXCEPT !.debounceTimers = IF s.debounceTimer THEN @ ELSE @ + 1,
            !.debounceTimer = TRUE,
            !.debounceLeft = DEBOUNCE_MS,
            !.fx = [@ EXCEPT !.clears = IF s.debounceTimer THEN @ + 1 ELSE @]]

\* ------------------------------------------------------ per-video listeners
applySpeed(s, v) ==
  IF isLiveVideo(s, v) THEN s
  ELSE IF v # activeVideo(s) \/ ~contains(s, v) THEN s
  ELSE IF ~paused(s, v) THEN setPlaybackRate(s, v, s.currentSpeed)
  ELSE s

onRateChange(s, v) ==
  IF isLiveVideo(s, v) THEN s
  ELSE IF v # activeVideo(s) THEN s
  ELSE IF Abs(rateOr1(s.rate[v]) - s.currentSpeed) > EPSILON
       THEN [s EXCEPT !.rateTimeouts = @ \cup {v}]
       ELSE s

\* the 100 ms timeout armed by onRateChange
rateCorrection(s, v) ==
  IF contains(s, v) /\ ~paused(s, v) THEN setPlaybackRate(s, v, s.currentSpeed) ELSE s

onDurationChange(s, v) ==
  IF s.live[v] THEN updateIndicators(s) ELSE s

\* ----------------------------------------------------------- recurring timers
stopPeriodicScan(s) ==
  IF s.scanIntervalId
  THEN [s EXCEPT !.scanTimers = @ - 1, !.scanIntervalId = FALSE,
                 !.fx = [@ EXCEPT !.clears = @ + 1]]
  ELSE s
startPeriodicScan(s) ==
  [stopPeriodicScan(s) EXCEPT !.scanTimers = @ + 1, !.scanIntervalId = TRUE]

stopGlobalSpeedCheck(s) ==
  IF s.speedCheckIntervalId
  THEN [s EXCEPT !.speedTimers = @ - 1, !.speedCheckIntervalId = FALSE,
                 !.fx = [@ EXCEPT !.clears = @ + 1]]
  ELSE s
startGlobalSpeedCheck(s) ==
  [stopGlobalSpeedCheck(s) EXCEPT !.speedTimers = @ + 1, !.speedCheckIntervalId = TRUE]

\* callback of the 2000 ms interval
periodicScan(s) == IF s.hidden THEN s ELSE findAndSetupVideos(s)

\* callback of the 500 ms interval
globalSpeedCheck(s) ==
  LET active == activeVideo(s) IN
  IF s.hidden THEN s
  ELSE IF active = Null \/ ~contains(s, active) \/ isLiveVideo(s, active) THEN s
  ELSE IF Abs(rateOr1(s.rate[active]) - s.currentSpeed) > EPSILON
       THEN setPlaybackRate(s, active, s.currentSpeed)
       ELSE s

\* callback of the 800 ms interval armed by createConstantIndicator
reconcile(s) ==
  LET primary == selectPrimaryVideo(s) IN
  IF ~s.showConstantIndicator THEN s
  ELSE IF primary = Null
       THEN (IF s.constantIndicator THEN hideConstantIndicator(s) ELSE s)
  ELSE IF s.indicatorPrimaryVideo # Null
          /\ ~shouldShowIndicatorForVideo(s, s.indicatorPrimaryVideo)
       THEN hideConstantIndicator(s)
  ELSE IF primary # s.indicatorPrimaryVideo THEN switchActiveVideo(s, primary)
  ELSE IF s.constantIndicator THEN positionConstantIndicator(s, primary)
  ELSE s

\* scroll / resize handler registered by createConstantIndicator
updatePosition(s) ==
  IF ~s.showConstantIndicator \/ ~s.constantIndicator THEN hideConstantIndicator(s)
  ELSE LET keep == s.indicatorPrimaryVideo # Null /\ contains(s, s.indicatorPrimaryVideo)
           video == IF keep THEN s.indicatorPrimaryVideo ELSE getPrimaryVideoForIndicator(s)
           s1 == IF keep THEN s ELSE [s EXCEPT !.indicatorPrimaryVideo = video]
       IN IF video = Null THEN hideConstantIndicator(s1)
          ELSE IF ~inViewport(s1, video) THEN hideConstantIndicator(s1)
          ELSE positionConstantIndicator(s1, video)

\* ---------------------------------------------------------------- settings
\* a storage callback that returns on an error without applying the defaults
loadSavedSettings_ErrorStops(s) ==
  LET settings == s.store
      useDefault(x) ==
        IF Len(getAllVideos(x)) > 0
        THEN setSpeed(x, DEFAULT_SPEED, x.showConstantIndicator, x.indicatorPosition)
        ELSE hideConstantIndicator([x EXCEPT !.currentSpeed = DEFAULT_SPEED])
  IN IF settings.err THEN s
     ELSE IF ~settings.present THEN useDefault(s)
     ELSE LET s1 == [s EXCEPT !.showConstantIndicator = settings.showIndicator,
                              !.indicatorPosition = settings.indicatorPosition,
                              !.saveSpeedEnabled = settings.saveSpeed]
          IN IF settings.saveSpeed /\ settings.speed # 0
             THEN IF Len(getAllVideos(s1)) > 0
                  THEN setSpeed(s1, settings.speed, s1.showConstantIndicator, s1.indicatorPosition)
                  ELSE hideConstantIndicator([s1 EXCEPT !.currentSpeed = settings.speed])
             ELSE useDefault(s1)

\* a storage callback that applies the stored speed whatever Save Speed says
loadSavedSettings_IgnoresSaveSpeed(s) ==
  LET settings == s.store
      useDefault(x) ==
        IF Len(getAllVideos(x)) > 0
        THEN setSpeed(x, DEFAULT_SPEED, x.showConstantIndicator, x.indicatorPosition)
        ELSE hideConstantIndicator([x EXCEPT !.currentSpeed = DEFAULT_SPEED])
  IN IF settings.err THEN useDefault(s)
     ELSE IF ~settings.present THEN useDefault(s)
     ELSE LET s1 == [s EXCEPT !.showConstantIndicator = settings.showIndicator,
                              !.indicatorPosition = settings.indicatorPosition,
                              !.saveSpeedEnabled = settings.saveSpeed]
          IN IF settings.speed # 0
             THEN IF Len(getAllVideos(s1)) > 0
                  THEN setSpeed(s1, settings.speed, s1.showConstantIndicator, s1.indicatorPosition)
                  ELSE hideConstantIndicator([s1 EXCEPT !.currentSpeed = settings.speed])
             ELSE useDefault(s1)

\* callback of chrome.storage.sync.get in loadSavedSettings
loadSavedSettings(s) ==
  LET settings == s.store
      useDefault(x) ==
        IF Len(getAllVideos(x)) > 0
        THEN setSpeed(x, DEFAULT_SPEED, x.showConstantIndicator, x.indicatorPosition)
        ELSE hideConstantIndicator([x EXCEPT !.currentSpeed = DEFAULT_SPEED])
  IN IF settings.err THEN useDefault(s)
     ELSE IF ~settings.present THEN useDefault(s)
     ELSE LET s1 == [s EXCEPT !.showConstantIndicator = settings.showIndicator,
                              !.indicatorPosition = settings.indicatorPosition,
                              !.saveSpeedEnabled = settings.saveSpeed]
          IN IF settings.saveSpeed /\ settings.speed # 0
             THEN IF Len(getAllVideos(s1)) > 0
                  THEN setSpeed(s1, settings.speed, s1.showConstantIndicator, s1.indicatorPosition)
                  ELSE hideConstantIndicator([s1 EXCEPT !.currentSpeed = settings.speed])
             ELSE useDefault(s1)

\* ---------------------------------------------- stored settings, as values
\* a JavaScript value as chrome.storage can return it for a field of the
\* settings record: undefined, null, a number (thousandths), NaN, a boolean,
\* a string
JsUndefined == [t |-> "undefined", n |-> 0, b |-> FALSE, str |-> ""]
JsNull == [t |-> "null", n |-> 0, b |-> FALSE, str |-> ""]
JsNaN == [t |-> "nan", n |-> 0, b |-> FALSE, str |-> ""]
JsNumber(n) == [t |-> "number", n |-> n, b |-> FALSE, str |-> ""]
JsBoolean(b) == [t |-> "boolean", n |-> 0, b |-> b, str |-> ""]
JsString(str) == [t |-> "string", n |-> 0, b |-> FALSE, str |-> str]
\* typeof x === "number" (NaN is a number), typeof x === "boolean"
typeofNumber(x) == x.t \in {"number", "nan"}
typeofBoolean(x) == x.t = "boolean"
\* Number(x): a numeric string gives its number, null 0, any other string and
\* undefined NaN
toNumber(x) ==
  CASE x.t = "number" -> x
    [] x.t = "null" -> JsNumber(0)
    [] x.t = "boolean" -> JsNumber(IF x.b THEN 1000 ELSE 0)
    [] x.t = "string" /\ x.str = "" -> JsNumber(0)
    [] x.t = "string" /\ x.str = "2" -> JsNumber(2000)
    [] OTHER -> JsNaN
\* truthiness: false, 0, NaN, "" and undefined are falsy
truthy(x) ==
  CASE x.t = "number" -> x.n # 0
    [] x.t = "boolean" -> x.b
    [] x.t = "string" -> x.str # ""
    [] OTHER -> FALSE
\* Math.max(lo, Math.min(hi, x)): NaN stays NaN
clampJs(x) == IF x.t = "nan" THEN JsNaN ELSE JsNumber(clamp(x.n))

\* what chrome.storage.sync holds under speedTuneSettings: nothing, a value
\* that is no object, or an object whose fields hold any of these values
RawSpeeds == {JsUndefined, JsNull, JsNumber(2000), JsNumber(20000), JsNumber(50), JsNumber(0),
              JsNaN, JsString("2"), JsString("fast")}
RawFlags == {JsUndefined, JsBoolean(TRUE), JsBoolean(FALSE), JsString("yes"), JsNumber(0)}
RawPositions == {JsUndefined, JsString("center"), JsString("middle")}
RawValues ==
  [object : {FALSE}, value : {JsUndefined, JsString("2x"), JsNumber(2000)},
   speed : {JsUndefined}, saveSpeed : {JsUndefined}, showIndicator : {JsUndefined},
   indicatorPosition : {JsUndefined}]
RawRecords(speeds, saves, shows, positions) ==
  [object : {TRUE}, value : {JsUndefined},
   speed : speeds, saveSpeed : saves, showIndicator : shows,
   indicatorPosition : positions]
RawSettings == RawValues \cup RawRecords(RawSpeeds, RawFlags, RawFlags, RawPositions)

getDefaultSettings ==
  [speed |-> JsNumber(DEFAULT_SPEED), saveSpeed |-> JsBoolean(FALSE),
   showIndicator |-> TRUE, indicatorPosition |-> "top-left"]
\* raw.indicatorPosition when it is one of the five positions, else top-left
migratePosition(x) ==
  IF x.t = "string" /\ x.str \in Positions THEN x.str ELSE "top-left"
\* raw.showIndicator !== false
notFalse(x) == ~(x.t = "boolean" /\ ~x.b)
\* migrateSettings(raw) of the service worker
migrateSettings(raw) ==
  IF ~raw.object THEN getDefaultSettings
  ELSE [speed |-> IF typeofNumber(raw.speed) THEN clampJs(raw.speed)
                  ELSE getDefaultSettings.speed,
        saveSpeed |-> IF typeofBoolean(raw.saveSpeed) THEN raw.saveSpeed
                      ELSE getDefaultSettings.saveSpeed,
        showIndicator |-> notFalse(raw.showIndicator),
        indicatorPosition |-> migratePosition(raw.indicatorPosition)]
\* the storage callback of the chrome.tabs.onUpdated listener for a tab that
\* completed loading: the applySpeedInTab call it schedules, if any
NoApply == [apply |-> FALSE, speed |-> JsUndefined, showIndicator |-> TRUE,
            indicatorPosition |-> "top-left"]
tabsOnUpdated(lastError, raw) ==
  LET settings == IF raw.object \/ truthy(raw.value) THEN migrateSettings(raw)
                  ELSE getDefaultSettings
  IN IF lastError THEN NoApply
     ELSE IF ~truthy(settings.saveSpeed) \/ ~truthy(settings.speed)
             \/ settings.speed = JsNumber(DEFAULT_SPEED)
          THEN NoApply
          ELSE [apply |-> TRUE, speed |-> settings.speed,
                showIndicator |-> settings.showIndicator,
                indicatorPosition |-> settings.indicatorPosition]
\* SpeedTunePopup.migrateSettings(raw)
popupMigrateSettings(raw) ==
  IF ~raw.object THEN getDefaultSettings
  ELSE [speed |-> clampJs(IF truthy(toNumber(raw.speed)) THEN toNumber(raw.speed)
                          ELSE JsNumber(DEFAULT_SPEED)),
        saveSpeed |-> JsBoolean(truthy(raw.saveSpeed)),
        showIndicator |-> notFalse(raw.showIndicator),
        indicatorPosition |-> migratePosition(raw.indicatorPosition)]
\* a settings record of the current schema
isNormalized(r) ==
  /\ r.speed.t = "number" /\ SPEED_MIN <= r.speed.n /\ r.speed.n <= SPEED_MAX
  /\ r.saveSpeed.t = "boolean"
  /\ r.showIndicator \in BOOLEAN
  /\ r.indicatorPosition \in Positions

\* ------------------------------------------- service worker: chrome.commands
\* result.speedTuneSettings of a storage read, from the record the store holds
readStore(st) ==
  IF ~st.present
  THEN [object |-> FALSE, value |-> JsUndefined, speed |-> JsUndefined,
        saveSpeed |-> JsUndefined, showIndicator |-> JsUndefined,
        indicatorPosition |-> JsUndefined]
  ELSE [object |-> TRUE, value |-> JsUndefined, speed |-> JsNumber(st.speed),
        saveSpeed |-> JsBoolean(st.saveSpeed),
        showIndicator |-> JsBoolean(st.showIndicator),
        indicatorPosition |-> JsString(st.indicatorPosition)]

Commands ==
  {"increase-speed-small", "decrease-speed-small", "increase-speed-large", "reset-speed"}
roundSpeed(m) == ((m + 5) \div 10) * 10

\* the switch of executeSpeedCommand on the stored speed
commandSpeed(current, command) ==
  CASE command = "increase-speed-small" ->
         Min(SPEED_MAX, roundSpeed(current + SPEED_INCREMENT_SMALL))
    [] command = "decrease-speed-small" ->
         Max(SPEED_MIN, roundSpeed(current - SPEED_INCREMENT_SMALL))
    [] command = "increase-speed-large" ->
         Min(SPEED_MAX, roundSpeed(current + SPEED_INCREMENT_LARGE))
    [] command = "reset-speed" -> DEFAULT_SPEED

\* executeSpeedCommand(tabId, command): storage read, migrateSettings, the new
\* speed, storage write and, from its callback, applySpeedInTab, which starts
\* safelySetSpeed; a lastError of the read or the write ends it
executeSpeedCommand(s, command, setError) ==
  LET settings == migrateSettings(readStore(s.store))
      newSpeed == commandSpeed(settings.speed.n, command)
      updated == [present |-> TRUE, err |-> FALSE, speed |-> newSpeed,
                  saveSpeed |-> settings.saveSpeed.b,
                  showIndicator |-> settings.showIndicator,
                  indicatorPosition |-> settings.indicatorPosition]
  IN IF s.store.err \/ setError THEN s
     ELSE [s EXCEPT !.store = updated,
                    !.exec = [ExecIdle EXCEPT
                                !.pc = "inject", !.copy = "worker",
                                !.call = <<newSpeed, settings.showIndicator,
                                           settings.indicatorPosition>>]]

\* the four chords of the keydown handler
chordSpeed(s, chord) ==
  CASE chord = "incLarge" -> Min(SPEED_MAX, round2(s.currentSpeed + STEP_LARGE))
    [] chord = "reset" -> DEFAULT_SPEED
    [] chord = "inc" -> Min(SPEED_MAX, round2(s.currentSpeed + STEP_SMALL))
    [] chord = "dec" -> Max(SPEED_MIN, round2(s.currentSpeed - STEP_SMALL))
Chords == {"inc", "dec", "incLarge", "reset"}

\* e.preventDefault(), e.stopPropagation(), setSpeed, and the storage
\* read-modify-write that is queued behind it
handleShortcut(s, newSpeed) ==
  [setSpeed(s, newSpeed, s.showConstantIndicator, s.indicatorPosition)
     EXCEPT !.fx = [@ EXCEPT !.prevented = @ + 1, !.stopped = @ + 1],
            !.storeQueue = Append(@, newSpeed)]

\* callback of chrome.storage.sync.get in handleShortcut: on an error nothing
\* is written, otherwise { ...settings, speed: newSpeed } replaces the record
writeSettings(s) ==
  IF s.store.err THEN [s EXCEPT !.storeQueue = Tail(@)]
  ELSE [s EXCEPT !.storeQueue = Tail(@),
                 !.store = [@ EXCEPT !.present = TRUE, !.speed = Head(s.storeQueue)]]

\* a keydown event as the handler reads it: e.key / e.code reduced to period,
\* comma or anything else, e.target reduced to what isInput looks at
Keys == {"period", "comma", "other"}
Targets == {"BODY", "INPUT", "TEXTAREA", "contenteditable"}
KeyEvents ==
  [ctrlKey : BOOLEAN, altKey : BOOLEAN, metaKey : BOOLEAN, shiftKey : BOOLEAN,
   key : Keys, target : Targets]
isInput(target) == target \in {"INPUT", "TEXTAREA", "contenteditable"}

\* the chord a keydown with Ctrl stands for, Shift combinations tested first
chordOf(e) ==
  IF e.shiftKey /\ e.key = "period" THEN "incLarge"
  ELSE IF e.shiftKey /\ e.key = "comma" THEN "reset"
  ELSE IF ~e.shiftKey /\ e.key = "period" THEN "inc"
  ELSE IF ~e.shiftKey /\ e.key = "comma" THEN "dec"
  ELSE "none"

\* the keydown listener that skips the text-entry test
onKeyDown_NoInputTest(s, e) ==
  IF ~(e.ctrlKey /\ ~e.altKey /\ ~e.metaKey) THEN s
  ELSE IF chordOf(e) = "none" THEN s
  ELSE handleShortcut(s, chordSpeed(s, chordOf(e)))

\* the capture-phase keydown listener of setupKeyboardShortcuts
onKeyDown(s, e) ==
  IF ~(e.ctrlKey /\ ~e.altKey /\ ~e.metaKey) THEN s
  ELSE IF isInput(e.target) THEN s
  ELSE IF chordOf(e) = "none" THEN s
  ELSE handleShortcut(s, chordSpeed(s, chordOf(e)))

\* the keydown event of a chord pressed outside a text field
chordEvent(chord) ==
  [ctrlKey |-> TRUE, altKey |-> FALSE, metaKey |-> FALSE,
   shiftKey |-> (chord \in {"incLarge", "reset"}),
   key |-> (IF chord \in {"inc", "incLarge"} THEN "period" ELSE "comma"),
   target |-> "BODY"]

\* ----------------------------------------------------------------- cleanup
RECURSIVE removeAll(_, _)
removeAll(s, vs) ==
  IF vs = {} THEN s
  ELSE LET v == CHOOSE x \in vs : TRUE IN removeAll(removeVideoListeners(s, v), vs \ {v})

\* destroy that disconnects the observers but keeps their references
destroy_KeepObservers(s) ==
  LET s1 == IF s.debounceTimer
            THEN [s EXCEPT !.debounceTimers = @ - 1, !.debounceTimer = FALSE,
                           !.debounceLeft = 0,
                           !.fx = [@ EXCEPT !.clears = @ + 1]]
            ELSE s
      s2 == stopGlobalSpeedCheck(stopPeriodicScan(s1))
      s3 == IF s2.observer
            THEN [s2 EXCEPT !.observing = FALSE, !.fx = [@ EXCEPT !.disconnects = @ + 1]]
            ELSE s2
      s4 == IF s3.urlChangeObserver
            THEN [s3 EXCEPT !.fx = [@ EXCEPT !.disconnects = @ + 1]]
            ELSE s3
      s5 == removeAll(s4, s4.videoListeners)
  IN [hideConstantIndicator(s5) EXCEPT !.speedTuneController = FALSE]

destroy(s) ==
  LET s1 == IF s.debounceTimer
            THEN [s EXCEPT !.debounceTimers = @ - 1, !.debounceTimer = FALSE,
                           !.debounceLeft = 0,
                           !.fx = [@ EXCEPT !.clears = @ + 1]]
            ELSE s
      s2 == stopGlobalSpeedCheck(stopPeriodicScan(s1))
      s3 == IF s2.observer
            THEN [s2 EXCEPT !.observer = FALSE, !.observing = FALSE,
                            !.fx = [@ EXCEPT !.disconnects = @ + 1]]
            ELSE s2
      s4 == IF s3.urlChangeObserver
            THEN [s3 EXCEPT !.urlChangeObserver = FALSE, !.fx = [@ EXCEPT !.disconnects = @ + 1]]
            ELSE s3
      s5 == removeAll(s4, s4.videoListeners)
  IN [hideConstantIndicator(s5) EXCEPT !.speedTuneController = FALSE]

\* ------------------------------------------------------------- transitions
\* a callback starts with an empty log
Begin(op) ==
  [Cur EXCEPT !.lastOp = op, !.peak = overlays, !.writes = {}, !.fx = ZeroFx]

\* a callback did something when it changed a field, the page or a pending
\* callback, wrote a playbackRate or released a resource
Silent(s) ==
  [s EXCEPT !.lastOp = lastOp, !.peak = peak, !.writes = writes, !.fx = fx] = Cur
effective(s) == ~Silent(s) \/ s.writes # {} \/ s.fx # ZeroFx

\* the state a callback leaves behind; cost is 1 for what the page or the user
\* does and 0 for timers and completions.  The log keeps the last callback that
\* did something: one that did nothing leaves no trace.
Commit(s, cost) ==
  IF effective(s)
  THEN
    /\ currentSpeed' = s.currentSpeed
    /\ videos' = s.videos
    /\ observer' = s.observer
    /\ constantIndicator' = s.constantIndicator
    /\ constantIndicatorUpdateHandlers' = s.constantIndicatorUpdateHandlers
    /\ indicatorPrimaryVideo' = s.indicatorPrimaryVideo
    /\ indicatorRecomputeIntervalId' = s.indicatorRecomputeIntervalId
    /\ showConstantIndicator' = s.showConstantIndicator
    /\ indicatorPosition' = s.indicatorPosition
    /\ saveSpeedEnabled' = s.saveSpeedEnabled
    /\ debounceTimer' = s.debounceTimer
    /\ speedCheckIntervalId' = s.speedCheckIntervalId
    /\ scanIntervalId' = s.scanIntervalId
    /\ videoListeners' = s.videoListeners
    /\ urlChangeObserver' = s.urlChangeObserver
    /\ speedTuneController' = s.speedTuneController
    /\ mounted' = s.mounted
    /\ kind' = s.kind
    /\ size' = s.size
    /\ style' = s.style
    /\ phase' = s.phase
    /\ live' = s.live
    /\ inView' = s.inView
    /\ rate' = s.rate
    /\ attached' = s.attached
    /\ hidden' = s.hidden
    /\ observing' = s.observing
    /\ overlays' = s.overlays
    /\ ovText' = s.ovText
    /\ ovPos' = s.ovPos
    /\ ovVideo' = s.ovVideo
    /\ winHandlers' = s.winHandlers
    /\ reconTimers' = s.reconTimers
    /\ scanTimers' = s.scanTimers
    /\ speedTimers' = s.speedTimers
    /\ debounceTimers' = s.debounceTimers
    /\ retryPending' = s.retryPending
    /\ urlTimeouts' = s.urlTimeouts
    /\ rateTimeouts' = s.rateTimeouts
    /\ loadPending' = s.loadPending
    /\ store' = s.store
    /\ storeQueue' = s.storeQueue
    /\ debounceLeft' = s.debounceLeft
    /\ scan' = s.scan
    /\ answer' = s.answer
    /\ lastOp' = s.lastOp
    /\ peak' = s.peak
    /\ writes' = s.writes
    /\ fx' = s.fx
    /\ wanted' = s.wanted
    /\ injected' = s.injected
    /\ exec' = s.exec
    /\ probe' = s.probe
    /\ everCandidate' = (everCandidate \/ \E v \in V : isCandidate(s, v))
    /\ ops' = ops + cost
  ELSE UNCHANGED vars

\* the variables hold the record s
Is(s) ==
  /\ currentSpeed = s.currentSpeed
  /\ videos = s.videos
  /\ observer = s.observer
  /\ constantIndicator = s.constantIndicator
  /\ constantIndicatorUpdateHandlers = s.constantIndicatorUpdateHandlers
  /\ indicatorPrimaryVideo = s.indicatorPrimaryVideo
  /\ indicatorRecomputeIntervalId = s.indicatorRecomputeIntervalId
  /\ showConstantIndicator = s.showConstantIndicator
  /\ indicatorPosition = s.indicatorPosition
  /\ saveSpeedEnabled = s.saveSpeedEnabled
  /\ debounceTimer = s.debounceTimer
  /\ speedCheckIntervalId = s.speedCheckIntervalId
  /\ scanIntervalId = s.scanIntervalId
  /\ videoListeners = s.videoListeners
  /\ urlChangeObserver = s.urlChangeObserver
  /\ speedTuneController = s.speedTuneController
  /\ mounted = s.mounted
  /\ kind = s.kind
  /\ size = s.size
  /\ style = s.style
  /\ phase = s.phase
  /\ live = s.live
  /\ inView = s.inView
  /\ rate = s.rate
  /\ attached = s.attached
  /\ hidden = s.hidden
  /\ observing = s.observing
  /\ overlays = s.overlays
  /\ ovText = s.ovText
  /\ ovPos = s.ovPos
  /\ ovVideo = s.ovVideo
  /\ winHandlers = s.winHandlers
  /\ reconTimers = s.reconTimers
  /\ scanTimers = s.scanTimers
  /\ speedTimers = s.speedTimers
  /\ debounceTimers = s.debounceTimers
  /\ retryPending = s.retryPending
  /\ urlTimeouts = s.urlTimeouts
  /\ rateTimeouts = s.rateTimeouts
  /\ loadPending = s.loadPending
  /\ store = s.store
  /\ storeQueue = s.storeQueue
  /\ debounceLeft = s.debounceLeft
  /\ scan = s.scan
  /\ answer = s.answer
  /\ lastOp = s.lastOp
  /\ peak = s.peak
  /\ writes = s.writes
  /\ fx = s.fx
  /\ wanted = s.wanted
  /\ injected = s.injected
  /\ exec = s.exec
  /\ probe = s.probe

\* ------------------------------------------------------------------- Init
\* page layouts: where each element lives and how large it is rendered
Layouts == {"ranked", "nocand"}
layoutKind(l, i) == IF l = "nocand" /\ i > 1 THEN "iframe" ELSE "main"
layoutSize(l, i) ==
  CASE l = "ranked" -> (IF i = 1 THEN "medium" ELSE "large")
    [] l = "equal" -> "large"
    [] l = "nocand" -> (IF i = 1 THEN "small" ELSE "large")
    [] OTHER -> (IF i = 1 THEN "medium" ELSE "large")
\* in a layout named after a style, every element but the first has that style
layoutStyle(l, i) == IF l \in Styles /\ i > 1 THEN l ELSE "shown"

\* the fields as the constructor sets them, on a page that has not been looked at
blank(l, m, ph, settings, ok) ==
  [currentSpeed |-> DEFAULT_SPEED, videos |-> {}, observer |-> ok,
   constantIndicator |-> FALSE, constantIndicatorUpdateHandlers |-> 0,
   indicatorPrimaryVideo |-> Null, indicatorRecomputeIntervalId |-> FALSE,
   showConstantIndicator |-> TRUE, indicatorPosition |-> "top-left",
   saveSpeedEnabled |-> FALSE, debounceTimer |-> FALSE,
   speedCheckIntervalId |-> FALSE, scanIntervalId |-> FALSE,
   videoListeners |-> {}, urlChangeObserver |-> FALSE, speedTuneController |-> FALSE,
   mounted |-> m,
   kind |-> [i \in V |-> layoutKind(l, i)],
   size |-> [i \in V |-> layoutSize(l, i)],
   style |-> [i \in V |-> layoutStyle(l, i)],
   phase |-> ph,
   live |-> [i \in V |-> FALSE],
   inView |-> [i \in V |-> TRUE],
   rate |-> [i \in V |-> DEFAULT_SPEED],
   attached |-> {}, hidden |-> FALSE, observing |-> ok,
   overlays |-> 0, ovText |-> 0, ovPos |-> "none", ovVideo |-> Null,
   winHandlers |-> 0, reconTimers |-> 0, scanTimers |-> 0, speedTimers |-> 0,
   debounceTimers |-> 0, retryPending |-> FALSE, urlTimeouts |-> 0, rateTimeouts |-> {},
   loadPending |-> FALSE, store |-> settings, storeQueue |-> <<>>,
   debounceLeft |-> 0, scan |-> ScanIdle, answer |-> NoAnswer,
   lastOp |-> "init", peak |-> 0, writes |-> {}, fx |-> ZeroFx, wanted |-> NoCall,
   injected |-> FALSE, exec |-> ExecIdle, probe |-> ProbeIdle]

\* init(): observer, first discovery pass, settings read issued, self-reference,
\* the retry timeouts, URL observer, visibility listener, the two intervals
init(b) ==
  LET s1 == findAndSetupVideos(b)
      s2 == [s1 EXCEPT !.loadPending = TRUE, !.speedTuneController = TRUE,
                       !.retryPending = TRUE, !.urlChangeObserver = TRUE,
                       !.injected = TRUE]
  IN startPeriodicScan(startGlobalSpeedCheck(s2))

Init ==
  \E l \in Layouts, m \in [V -> BOOLEAN], ph \in [V -> {"unstarted", "playing"}],
     settings \in {StoreNone, StoreWild} :
    /\ \A i \in V : ~m[i] => ph[i] = "unstarted"
    /\ Is(init(blank(l, m, ph, settings, TRUE)))
    /\ everCandidate = \E i \in V : isCandidate(blank(l, m, ph, settings, TRUE), i)
    /\ ops = 0

\* --------------------------------------------------------------- page steps
\* what the page and the user do is counted; what timers and callbacks do is not
Budget == ops < MaxOps

\* the page inserts an element (for an iframe element: the iframe that holds it),
\* as it was left or already playing (play() on the detached element: no play
\* event reaches the document); the body observer sees an added VIDEO / IFRAME
Mount(v) ==
  /\ ~mounted[v]
  /\ Budget
  /\ \E ph \in {phase[v], "playing"} :
       /\ ph # phase[v] => kind[v] = "main"
       /\ LET s == [Begin("mount") EXCEPT !.mounted[v] = TRUE, !.phase[v] = ph]
          IN Commit(IF s.observing THEN scheduleFindVideos(s) ELSE s, 1)

\* the page removes an element; removal pauses it; the observer callback looks
\* at addedNodes only
Remove(v) ==
  /\ mounted[v]
  /\ Budget
  /\ Commit([Begin("remove") EXCEPT
               !.mounted[v] = FALSE,
               !.phase[v] = CASE @ = "playing" -> "paused"
                              [] @ = "loading" -> "unstarted"
                              [] OTHER -> @], 1)

\* playback starts on a main-document element: the capture-phase play listener
Play(v) ==
  /\ mounted[v] /\ kind[v] = "main"
  /\ phase[v] \in {"unstarted", "paused", "ended"}
  /\ Budget
  /\ \E ph \in {"playing", "loading"} :
       /\ ph = "loading" => phase[v] = "unstarted"
       /\ LET s == [Begin("play") EXCEPT !.phase[v] = ph]
          IN Commit(IF isLikelyMainPlayer(s, v) THEN switchActiveVideo(s, v) ELSE s, 1)

\* enough data arrives: canplay / playing reach the element's applySpeed listener
Loaded(v) ==
  /\ mounted[v] /\ kind[v] = "main" /\ phase[v] = "loading"
  /\ Budget
  /\ LET s == [Begin("loaded") EXCEPT !.phase[v] = "playing"]
     IN Commit(IF v \in s.attached THEN applySpeed(s, v) ELSE s, 1)

Pause(v) ==
  /\ mounted[v] /\ kind[v] = "main" /\ phase[v] = "playing"
  /\ Budget
  /\ Commit([Begin("pause") EXCEPT !.phase[v] = "paused"], 1)

End(v) ==
  /\ mounted[v] /\ kind[v] = "main" /\ phase[v] = "playing"
  /\ Budget
  /\ Commit([Begin("end") EXCEPT !.phase[v] = "ended"], 1)

\* the stream turns out to be live: durationchange
GoLive(v) ==
  /\ mounted[v] /\ kind[v] = "main" /\ ~live[v]
  /\ Budget
  /\ LET s == [Begin("golive") EXCEPT !.live[v] = TRUE]
     IN Commit(IF v \in s.attached THEN onDurationChange(s, v) ELSE s, 1)

\* the user scrolls an element out of or into the viewport: scroll event
Scroll(v) ==
  /\ mounted[v] /\ kind[v] = "main"
  /\ Budget
  /\ LET s == [Begin("scroll") EXCEPT !.inView[v] = ~@]
     IN Commit(IF s.winHandlers > 0 THEN updatePosition(s) ELSE s, 1)

\* a page script sets playbackRate: ratechange
PageSetRate(v, r) ==
  /\ mounted[v] /\ kind[v] = "main" /\ rate[v] # r
  /\ Budget
  /\ LET s == [Begin("pagerate") EXCEPT !.rate[v] = r]
     IN Commit(IF v \in s.attached THEN onRateChange(s, v) ELSE s, 1)

\* --------------------------------------------------------------- user steps
\* window.speedTuneController.setSpeed(speed, show, position)
SetSpeed(speed, show, position) ==
  /\ speedTuneController
  /\ Budget
  /\ LET s == setSpeed(Begin("setSpeed"), speed, show, position)
         early == show /\ videos = {} /\ Len(getAllVideos(Cur)) = 0
     IN Commit([s EXCEPT !.wanted = IF early
                                     THEN [set |-> TRUE, target |-> clamp(round2(speed)),
                                           position |-> position]
                                     ELSE NoCall], 1)

\* Ctrl chord outside a text field
KeyChord(chord) ==
  /\ Budget
  /\ LET s == Begin("chord")
     IN Commit([onKeyDown(s, chordEvent(chord)) EXCEPT !.wanted = NoCall], 1)

VisibilityChange ==
  /\ Budget
  /\ LET s == [Begin("visibility") EXCEPT !.hidden = ~@]
     IN Commit(IF s.hidden
               THEN stopGlobalSpeedCheck(stopPeriodicScan(s))
               ELSE scheduleFindVideos(startGlobalSpeedCheck(startPeriodicScan(s))), 1)

\* location.href changed and the document observer is called
UrlChange ==
  /\ urlChangeObserver
  /\ Budget
  /\ Commit([Begin("urlchange") EXCEPT !.urlTimeouts = @ + 1], 1)

Destroy ==
  /\ Budget
  /\ Commit(destroy(Begin("destroy")), 1)

\* the beforeunload listener
BeforeUnload ==
  /\ Budget
  /\ LET s == Begin("beforeunload")
     IN Commit(IF s.speedTuneController THEN destroy(s) ELSE s, 1)

\* -------------------------------------------------------------- timer steps
\* what is left of the delay goes by and the timeout fires
DebounceFire ==
  /\ debounceTimers > 0
  /\ LET s == [Begin("debounce") EXCEPT !.debounceTimers = @ - 1, !.debounceTimer = FALSE,
                                        !.debounceLeft = 0]
     IN Commit(findAndSetupVideos(s), 0)

\* one of the timeouts init armed at 500, 1000, 2000, 3000 and 5000 ms fires.
\* The five are not told apart: retryPending holds until the last has fired.
RetryFire ==
  /\ retryPending
  /\ \E last \in BOOLEAN :
       Commit(scheduleFindVideos([Begin("retry") EXCEPT !.retryPending = ~last]), 0)

UrlTimeoutFire ==
  /\ urlTimeouts > 0
  /\ Commit(findAndSetupVideos([Begin("urltimeout") EXCEPT !.urlTimeouts = @ - 1]), 0)

ScanTick ==
  /\ scanTimers > 0
  /\ Commit(periodicScan(Begin("scan")), 0)

SpeedCheckTick ==
  /\ speedTimers > 0
  /\ Commit(globalSpeedCheck(Begin("speedcheck")), 0)

ReconcileTick ==
  /\ reconTimers > 0
  /\ Commit(reconcile(Begin("reconcile")), 0)

RateCorrectionFire(v) ==
  /\ v \in rateTimeouts
  /\ Commit(rateCorrection([Begin("ratecorrection") EXCEPT !.rateTimeouts = @ \ {v}], v), 0)

\* a resize, or a scroll that moves no element across the viewport edge
WindowEvent ==
  /\ winHandlers > 0
  /\ Commit(updatePosition(Begin("windowevent")), 0)

\* loadstart / canplay / loadedmetadata / playing on a tracked element
MediaEvent(v) ==
  /\ v \in attached /\ mounted[v]
  /\ Commit(applySpeed(Begin("mediaevent"), v), 0)

\* the storage read issued by init completes
SettingsLoaded ==
  /\ loadPending
  /\ LET s == loadSavedSettings([Begin("settings") EXCEPT !.loadPending = FALSE])
     IN Commit(IF Len(getAllVideos(Cur)) > 0 THEN [s EXCEPT !.wanted = NoCall] ELSE s, 0)

\* the read-modify-write a chord issued completes
StorageWrite ==
  /\ storeQueue # <<>>
  /\ Commit(writeSettings(Begin("storagewrite")), 0)

\* ------------------------------------------------ popup: checkPrimaryVideo
\* the function checkPrimaryVideo injects into the tab
injectedHasPrimaryVideo(s) ==
  IF ~s.speedTuneController THEN "not-ready"
  ELSE IF hasPrimaryVideo(s) THEN "yes" ELSE "no"

\* one turn of the loop of checkPrimaryVideo up to its next await
checkAttempt(s, throws) ==
  LET result == IF throws THEN "threw" ELSE injectedHasPrimaryVideo(s)
      s1 == [s EXCEPT !.probe.made = @ + 1, !.probe.last = result]
  IN IF result = "yes" THEN [s1 EXCEPT !.probe.pc = "returned", !.probe.returned = "true"]
     ELSE IF result = "no"
     THEN [s1 EXCEPT !.probe.pc = "returned", !.probe.returned = "false"]
     ELSE IF s.probe.i < MAX_TRIES - 1
     THEN [s1 EXCEPT !.probe.pc = "wait", !.probe.wait = RETRY_MS]
     ELSE [s1 EXCEPT !.probe.pc = "returned", !.probe.returned = "false",
                     !.probe.i = @ + 1]

\* the retry timeout fires: i++ and the loop test
checkResume(s) ==
  LET s1 == [s EXCEPT !.probe.elapsed = @ + s.probe.wait, !.probe.wait = 0,
                      !.probe.i = @ + 1]
  IN IF s1.probe.i < MAX_TRIES THEN [s1 EXCEPT !.probe.pc = "inject"]
     ELSE [s1 EXCEPT !.probe.pc = "returned", !.probe.returned = "false"]


\* ----------------------------------------------------- the three queries
\* a caller holding window.speedTuneController asks it something: the popup's
\* injected probe (hasPrimaryVideo), a test helper (getCurrentSpeed), the
\* controller's own callers (selectPrimaryVideo).  A timer-free call: it uses
\* none of the page's budget.
SelectPrimaryVideo ==
  /\ speedTuneController
  /\ Commit(selectPrimaryVideoCall(Begin("selectPrimaryVideo")), 0)

HasPrimaryVideo ==
  /\ speedTuneController
  /\ Commit(hasPrimaryVideoCall(Begin("hasPrimaryVideo")), 0)

GetCurrentSpeed ==
  /\ speedTuneController
  /\ Commit(getCurrentSpeedCall(Begin("getCurrentSpeed")), 0)

\* a page whose videos come, go and play, a user who changes the speed, the
\* controller's timers, and the queries made at any point in between
InitQuery ==
  \E m \in [V -> BOOLEAN] :
    /\ Is(init(blank("ranked", m, [i \in V |-> "unstarted"], StoreSaved, TRUE)))
    /\ everCandidate = \E i \in V :
         isCandidate(blank("ranked", m, [j \in V |-> "unstarted"], StoreSaved, TRUE), i)
    /\ ops = 0

QueryNext ==
  \/ \E v \in V : Mount(v)
  \/ \E v \in V : Remove(v)
  \/ \E v \in V : Play(v)
  \/ \E c \in SetSpeedCalls : SetSpeed(c[1], c[2], c[3])
  \/ \E chord \in Chords : KeyChord(chord)
  \/ SettingsLoaded
  \/ DebounceFire
  \/ ScanTick
  \/ ReconcileTick
  \/ SelectPrimaryVideo
  \/ HasPrimaryVideo
  \/ GetCurrentSpeed

QuerySpec == InitQuery /\ [][QueryNext]_vars

\* ------------------------------------------- the extension's other contexts
\* the content script runs in the tab: constructor and init()
Inject ==
  /\ ~injected
  /\ Commit(init([Begin("init") EXCEPT !.observer = TRUE, !.observing = TRUE]), 0)

\* the service worker (applySpeedInTab) or the popup calls safelySetSpeed
SafelySetSpeed(copy, call) ==
  /\ exec.pc = "idle"
  /\ Commit([Begin("safelySetSpeed") EXCEPT
               !.exec = [ExecIdle EXCEPT !.pc = "inject", !.copy = copy, !.call = call]], 0)

\* executeScript settles and the loop body runs on
SafelyAttempt ==
  /\ exec.pc = "inject"
  /\ \E throws \in BOOLEAN : Commit(safelyAttempt(Begin("inject"), throws), 0)

SafelyBackoffFire ==
  /\ exec.pc = "backoff"
  /\ Commit(safelyResume(Begin("backoff")), 0)

\* the popup opens: checkVideoStatus calls checkPrimaryVideo for the active tab
CheckPrimaryVideo ==
  /\ probe.pc = "idle"
  /\ Commit([Begin("checkPrimaryVideo") EXCEPT !.probe = [ProbeIdle EXCEPT !.pc = "inject"]], 0)

ProbeAttempt ==
  /\ probe.pc = "inject"
  /\ \E throws \in BOOLEAN : Commit(checkAttempt(Begin("probe"), throws), 0)

ProbeRetryFire ==
  /\ probe.pc = "wait"
  /\ Commit(checkResume(Begin("proberetry")), 0)

\* after the call has returned, another RETRY_MS of the time its probes would
\* have covered goes by
RetryWindowPasses ==
  /\ probe.pc = "returned"
  /\ probe.elapsed < (MAX_TRIES - 1) * RETRY_MS
  /\ Commit([Begin("time") EXCEPT !.probe.elapsed = @ + RETRY_MS], 0)

Next ==
  \/ \E v \in V : Mount(v)
  \/ \E v \in V : Remove(v)
  \/ \E v \in V : Play(v)
  \/ \E v \in V : Loaded(v)
  \/ \E v \in V : Pause(v)
  \/ \E v \in V : End(v)
  \/ \E v \in V : GoLive(v)
  \/ \E v \in V : Scroll(v)
  \/ \E v \in V, r \in PageRates : PageSetRate(v, r)
  \/ \E call \in SetSpeedCalls : SetSpeed(call[1], call[2], call[3])
  \/ \E chord \in Chords : KeyChord(chord)
  \/ VisibilityChange
  \/ UrlChange
  \/ Destroy
  \/ BeforeUnload
  \/ DebounceFire
  \/ RetryFire
  \/ UrlTimeoutFire
  \/ ScanTick
  \/ SpeedCheckTick
  \/ ReconcileTick
  \/ \E v \in V : RateCorrectionFire(v)
  \/ WindowEvent
  \/ \E v \in V : MediaEvent(v)
  \/ SettingsLoaded
  \/ StorageWrite

Spec == Init /\ [][Next]_vars

TypeOK ==
  /\ currentSpeed \in Int
  /\ videos \subseteq V
  /\ indicatorPrimaryVideo \in V \cup {Null}
  /\ overlays \in Nat

\* the controller started on a page where the MutationObserver may have failed
\* (constructor threw, or no body to observe); the 2000 ms interval fires for as
\* long as it is armed
InitBestEffort ==
  \E m \in [V -> BOOLEAN], ph \in [V -> {"unstarted", "playing"}], ok \in BOOLEAN :
    /\ \A i \in V : ~m[i] => ph[i] = "unstarted"
    /\ Is(init(blank("ranked", m, ph, StoreNone, ok)))
    /\ everCandidate = \E i \in V : isCandidate(blank("ranked", m, ph, StoreNone, ok), i)
    /\ ops = 0

\* a scan tick that would do something: the enabling condition of <<ScanTick>>_vars
ScanDue == scanTimers > 0 /\ effective(periodicScan(Begin("scan")))
\* setInterval keeps calling the scan callback: weak fairness of ScanTick, with
\* its enabling condition written out
ScanFairness == []<>(~ScanDue) \/ []<><<ScanTick>>_vars

\* the 2000 ms scan and the 500 ms enforcement interval fire for as long as
\* they are armed
BestEffortSpec ==
  InitBestEffort /\ [][Next]_vars /\ ScanFairness /\ WF_vars(SpeedCheckTick)

\* pages that put the selection rule to the test: videos of equal area, and a
\* larger video that is styled away next to a smaller one that is rendered
SelectionLayouts == {"equal"} \cup (Styles \ {"shown"})
InitSelection ==
  \E l \in SelectionLayouts, m \in [V -> BOOLEAN], ph \in [V -> {"unstarted", "playing"}] :
    /\ m[1]
    /\ \A i \in V : ~m[i] => ph[i] = "unstarted"
    /\ Is(init(blank(l, m, ph, StoreNone, TRUE)))
    /\ everCandidate = \E i \in V : isCandidate(blank(l, m, ph, StoreNone, TRUE), i)
    /\ ops = 0

SelectionSpec == InitSelection /\ [][Next]_vars

\* one page with a small and a large video, the large one not yet played or
\* playing, and settings saved earlier: the states the keyboard handler is
\* examined in
InitKeyboard ==
  \E ph \in [V -> {"unstarted", "playing"}] :
    /\ \A i \in V : i # NumVideos => ph[i] = "unstarted"
    /\ Is(init(blank("ranked", [i \in V |-> TRUE], ph, StoreSaved, TRUE)))
    /\ everCandidate = \E i \in V : isCandidate(blank("ranked", [j \in V |-> TRUE], ph, StoreSaved, TRUE), i)
    /\ ops = 0

KeyboardSpec == InitKeyboard /\ [][Next]_vars

\* a page whose videos are all there or all still to come, with a settings
\* read that fails, a record saved with Save Speed off, or one saved with it on:
\* the states the settings load is examined in
SettingsStores == {StoreError, StoreOff, StoreSaved}
InitSettings ==
  \E m \in {[i \in V |-> TRUE], [i \in V |-> FALSE]}, settings \in SettingsStores :
    /\ Is(init(blank("ranked", m, [i \in V |-> "unstarted"], settings, TRUE)))
    /\ everCandidate =
         \E i \in V : isCandidate(blank("ranked", m, [j \in V |-> "unstarted"], settings, TRUE), i)
    /\ ops = 0

SettingsSpec == InitSettings /\ [][Next]_vars

\* a tab in which the content script has run or is still to run, its videos
\* there or still to come, and one safelySetSpeed call from the service worker
\* or the popup
InitExecutor ==
  \E m \in [V -> BOOLEAN], inj \in BOOLEAN :
    LET b == blank("ranked", m, [i \in V |-> "unstarted"], StoreNone, inj)
    IN /\ Is(IF inj THEN init(b) ELSE b)
       /\ everCandidate = \E i \in V : isCandidate(b, i)
       /\ ops = 0

ExecutorNext ==
  \/ Inject
  \/ \E v \in V : Mount(v)
  \/ \E v \in V : Remove(v)
  \/ DebounceFire
  \/ ScanTick
  \/ SettingsLoaded
  \/ BeforeUnload
  \/ \E copy \in Copies, call \in SetSpeedCalls : SafelySetSpeed(copy, call)
  \/ SafelyAttempt
  \/ SafelyBackoffFire

\* the promise of executeScript settles and an armed timeout fires
AttemptDue == exec.pc = "inject"
ExecutorFairness ==
  /\ WF_vars(SafelyBackoffFire)
  /\ []<>(~AttemptDue) \/ []<><<SafelyAttempt>>_vars

ExecutorSpec == InitExecutor /\ [][ExecutorNext]_vars /\ ExecutorFairness

\* a tab that is still loading: the content script has run or is still to
\* run, the videos are there or still to come, and the popup is opened
InitProbe ==
  \E m \in [V -> BOOLEAN], inj \in BOOLEAN :
    LET b == blank("ranked", m, [i \in V |-> "unstarted"], StoreNone, inj)
    IN /\ Is(IF inj THEN init(b) ELSE b)
       /\ everCandidate = \E i \in V : isCandidate(b, i)
       /\ ops = 0

ProbeNext ==
  \/ Inject
  \/ \E v \in V : Mount(v)
  \/ \E v \in V : Remove(v)
  \/ DebounceFire
  \/ ScanTick
  \/ BeforeUnload
  \/ CheckPrimaryVideo
  \/ ProbeAttempt
  \/ ProbeRetryFire
  \/ RetryWindowPasses

\* the promise of executeScript settles and the retry timeout fires
ProbeFairness == WF_vars(ProbeAttempt) /\ WF_vars(ProbeRetryFire)

ProbeSpec == InitProbe /\ [][ProbeNext]_vars /\ ProbeFairness

\* ================================================================== claims

\* the debounce delay measured: time passes in steps while the timeout is
\* pending, and the timeout fires when nothing is left of its delay.  Calls of
\* scheduleFindVideos come from the body observer (Mount), init's retry
\* timeouts and the visibilitychange listener.
Elapse ==
  /\ debounceTimers > 0 /\ debounceLeft > 0
  /\ Commit([Begin("elapse") EXCEPT !.debounceLeft = @ - TimeStep], 0)

DebounceTimeout == debounceLeft = 0 /\ DebounceFire

InitDebounce ==
  \E m \in [V -> BOOLEAN], ph \in [V -> {"unstarted", "playing"}] :
    /\ \A i \in V : ~m[i] => ph[i] = "unstarted"
    /\ Is(init(blank("ranked", m, ph, StoreNone, TRUE)))
    /\ everCandidate = \E i \in V : isCandidate(blank("ranked", m, ph, StoreNone, TRUE), i)
    /\ ops = 0

DebounceNext ==
  \/ \E v \in V : Mount(v)
  \/ \E v \in V : Remove(v)
  \/ VisibilityChange
  \/ Destroy
  \/ BeforeUnload
  \/ RetryFire
  \/ ScanTick
  \/ Elapse
  \/ DebounceTimeout

\* time goes on, a due timeout fires, and init's retry timeouts are finitely
\* many (five), so that from some point on none of them fires
PassDue == debounceTimers > 0 /\ debounceLeft = 0
DebounceFairness ==
  /\ WF_vars(Elapse)
  /\ []<>(~PassDue) \/ []<><<DebounceTimeout>>_vars
  /\ <>[][lastOp' # "retry"]_vars

DebounceSpec == InitDebounce /\ [][DebounceNext]_vars /\ DebounceFairness


\* getAllVideos called on pages whose elements sit in any of the places, with
\* any set of its accesses throwing
GetAllVideos(f) ==
  /\ injected
  /\ LET s == Begin("getAllVideos")
     IN Commit([s EXCEPT !.scan.faults = f, !.scan.result = getAllVideosUnder(s, f),
                         !.scan.called = TRUE], 0)

\* the page starts empty or with every element in place; one layout has an
\* element with display: none
InitSources ==
  \E l \in Layouts \cup {"displayNone"}, m \in {[v \in V |-> b] : b \in BOOLEAN},
     pl \in [V -> Places] :
    /\ \A v \in V : layoutKind(l, v) = "iframe" <=> pl[v] \in {"frame1", "frame2"}
    /\ Is([init(blank(l, m, [v \in V |-> "unstarted"], StoreNone, TRUE))
             EXCEPT !.scan.place = pl])
    /\ everCandidate =
         \E i \in V : isCandidate(blank(l, m, [v \in V |-> "unstarted"], StoreNone, TRUE), i)
    /\ ops = 0

\* at most MaxFaults accesses throw during one call
FaultSets == {f \in SUBSET SourceFaults : Cardinality(f) <= MaxFaults}

SourcesNext ==
  \/ \E v \in V : Mount(v)
  \/ \E f \in FaultSets : GetAllVideos(f)

SourcesSpec == InitSources /\ [][SourcesNext]_vars


\* a chord reaches the tab either through the page's keydown listener or, as a
\* browser command, through the service worker; the popup sets speeds too
Command(command) ==
  /\ exec.pc # "inject" /\ exec.pc # "backoff"
  /\ Budget
  /\ \E setError \in BOOLEAN :
       Commit(executeSpeedCommand(Begin("command"), command, setError), 1)

InitCommand ==
  \E m \in [V -> BOOLEAN], settings \in {StoreNone, StoreOff, StoreSaved} :
    LET b == blank("ranked", m, [i \in V |-> "unstarted"], settings, TRUE)
    IN /\ Is(init(b))
       /\ everCandidate = \E i \in V : isCandidate(b, i)
       /\ ops = 0

CommandNext ==
  \/ \E command \in Commands : Command(command)
  \/ \E chord \in Chords : KeyChord(chord)
  \/ \E call \in SetSpeedCalls : SetSpeed(call[1], call[2], call[3])
  \/ SettingsLoaded
  \/ StorageWrite
  \/ SafelyAttempt
  \/ SafelyBackoffFire

CommandSpec == InitCommand /\ [][CommandNext]_vars


\* C1: at most one overlay node is attached to the page and at most one element
\* is recorded as primary, in every state and at every point inside a callback:
\* no callback creates an overlay while another one is still attached.
C1_SingleOverlay ==
  /\ overlays <= 1
  /\ peak <= 1
  /\ indicatorPrimaryVideo \in V \cup {Null}
  /\ constantIndicator <=> overlays = 1
\* a play event has moved the overlay from the old primary to a new one
C1_Witness ==
  /\ lastOp = "play" /\ fx.removes = 1
  /\ overlays = 1 /\ indicatorPrimaryVideo # Null

\* C2: after setSpeed(r) the primary (in the document, not live) has rate
\* clamp(round(r, 2), 0.1, 16), and whatever rate the page then gives the
\* primary, the next firing of the 500 ms timer in a visible tab restores the
\* target.
C2_RatePinned ==
  LET a == activeVideo(Cur)
      tick == globalSpeedCheck(Begin("speedcheck"))
      present == a # Null /\ contains(Cur, a) /\ ~isLiveVideo(Cur, a)
  IN /\ (lastOp = "setSpeed" /\ present) => rate[a] = currentSpeed
     /\ (speedTimers > 0 /\ ~hidden /\ present) => tick.rate[a] = currentSpeed

\* C3: every playbackRate write of the controller targets the element that is
\* the primary (recorded, or selected when none is recorded) at that moment.
C3_WritesOnlyPrimary == \A w \in writes : w.primary

\* C4: once a discovery pass has completed, an element that is no longer in the
\* document is not tracked, has no listener entry, carries no listener, and
\* neither the primary reference nor the overlay refers to it.
C4_NoStaleAfterPass ==
  LET pass == findAndSetupVideos(Begin("scan"))
  IN \A v \in V :
       ~contains(pass, v) =>
         /\ v \notin pass.videos
         /\ v \notin pass.videoListeners
         /\ v \notin pass.attached
         /\ pass.indicatorPrimaryVideo # v
         /\ pass.ovVideo # v

\* C5: as long as no element of the top-level document has ever passed the
\* candidate filter, no overlay is attached, no primary is recorded and
\* hasPrimaryVideo() is false.
C5_NoCandidateNoOverlay ==
  ~everCandidate =>
    /\ overlays = 0
    /\ ~constantIndicator
    /\ indicatorPrimaryVideo = Null
    /\ ~hasPrimaryVideo(Cur)
\* a video below 380x214 is playing in the top-level document, or a video plays
\* inside an iframe, and setSpeed has been called
C5_Witness ==
  /\ ~everCandidate
  /\ lastOp = "setSpeed"
  /\ showConstantIndicator
  /\ \E v \in V : mounted[v] /\ kind[v] = "main" /\ phase[v] = "playing"
  /\ \E v \in V : mounted[v] /\ kind[v] = "iframe"

\* C6: the target rate is within [0.1, 16] and a multiple of 0.01, every rate
\* the controller writes is within [0.1, 16], and getCurrentSpeed() after
\* setSpeed(r) is clamp(round(r, 2), 0.1, 16).
C6_TargetInRange ==
  /\ currentSpeed >= SPEED_MIN /\ currentSpeed <= SPEED_MAX
  /\ currentSpeed % 10 = 0
  /\ \A w \in writes : w.value >= SPEED_MIN /\ w.value <= SPEED_MAX
  /\ \A call \in SetSpeedCalls :
       getCurrentSpeed(setSpeed(Cur, call[1], call[2], call[3])) = clamp(round2(call[1]))

\* C7: once destroy() has run, the observers are disconnected, no timer of the
\* controller is armed, nothing is tracked, no listener is attached, no overlay
\* exists, and no later callback arms a timer, attaches a listener, creates an
\* overlay or writes a rate.
C7_DeadAfterDestroy ==
  ~speedTuneController =>
    /\ ~observer /\ ~observing /\ ~urlChangeObserver
    /\ debounceTimers = 0 /\ ~debounceTimer
    /\ scanTimers = 0 /\ speedTimers = 0 /\ reconTimers = 0
    /\ videos = {} /\ videoListeners = {} /\ attached = {}
    /\ overlays = 0 /\ winHandlers = 0
    /\ writes = {}

\* C8: destroy() called on the state destroy() has just left changes no field,
\* clears no timer, disconnects no observer, removes no listener and no overlay.
C8_DestroyIdempotent ==
  LET once == [destroy(Begin("destroy")) EXCEPT !.fx = ZeroFx]
      twice == destroy(once)
  IN twice = once
\* destroy() has torn down a controller that had an overlay, tracked videos and
\* running timers
C8_Witness ==
  /\ lastOp = "destroy"
  /\ ~speedTuneController
  /\ fx.removes = 1 /\ fx.unlistens > 1 /\ fx.clears > 1 /\ fx.disconnects = 2

\* C9: after setSpeed(r, true, p) on a page without video, with no other
\* setSpeed call and no chord since, the target rate is clamp(round(r, 2), 0.1, 16),
\* and when a qualifying playing video is then the one video of the page, a
\* discovery pass makes it the primary, gives it that rate and shows the overlay
\* with that rate at position p.
C9_EarlySetSpeedApplies ==
  LET pass == findAndSetupVideos(Begin("scan"))
      qualifying(v) ==
        /\ contains(Cur, v) /\ isCandidate(Cur, v) /\ isLikelyMainPlayer(Cur, v)
        /\ phase[v] = "playing" /\ inViewport(Cur, v)
        /\ \A u \in V \ {v} : ~mounted[u]
  IN wanted.set =>
       /\ currentSpeed = wanted.target
       /\ \A v \in V :
            qualifying(v) =>
              /\ pass.indicatorPrimaryVideo = v
              /\ pass.rate[v] = wanted.target
              /\ pass.overlays = 1
              /\ pass.ovVideo = v
              /\ pass.ovText = toFixed1(wanted.target)
              /\ pass.ovPos = wanted.position

\* C10: removing the primary from the document arms the debounce timer, and the
\* discovery pass it runs leaves no tracked entry for the element and, when no
\* candidate is left, no overlay and no primary.
C10_RemovalTriggersPass ==
  LET pass == findAndSetupVideos(Begin("debounce"))
      gone == indicatorPrimaryVideo # Null /\ ~mounted[indicatorPrimaryVideo]
  IN /\ (lastOp = "remove" /\ gone) => debounceTimers > 0
     /\ gone =>
          /\ indicatorPrimaryVideo \notin pass.videos
          /\ selectPrimaryVideo(Cur) = Null =>
               pass.overlays = 0 /\ pass.indicatorPrimaryVideo = Null

\* C11: while the tab is visible, the indicator is enabled and the scan interval
\* is armed, a playing, non-live video of at least 380x214 in the top-level
\* document that is inside the viewport and is the one the selection rule picks
\* is eventually tracked, primary, at the target rate and shown with the
\* overlay, unless one of these conditions ends first; with or without a
\* working MutationObserver.
C11_Running == ~hidden /\ showConstantIndicator /\ scanTimers > 0
C11_Eligible(v) ==
  /\ C11_Running
  /\ contains(Cur, v) /\ phase[v] = "playing"
  /\ width(Cur, v) >= MIN_W /\ height(Cur, v) >= MIN_H
  /\ ~live[v] /\ inViewport(Cur, v) /\ selectPrimaryVideo(Cur) = v
C11_Shown(v) ==
  /\ v \in videos /\ indicatorPrimaryVideo = v
  /\ overlays = 1 /\ ovVideo = v
C11_EventuallyShown ==
  \A v \in V :
    C11_Eligible(v) ~> ((C11_Shown(v) /\ rate[v] = currentSpeed) \/ ~C11_Eligible(v))

\* C12: an element with display: none, visibility: hidden or opacity below 0.01
\* is never the selected primary, never the recorded primary and never carries
\* the overlay; next to a rendered candidate, the rendered one is selected even
\* when the styled-away element is larger.
C12_HiddenNeverPrimary ==
  \A v \in V :
    (mounted[v] /\ style[v] # "shown") =>
      /\ selectPrimaryVideo(Cur) # v
      /\ indicatorPrimaryVideo # v
      /\ ovVideo # v
      /\ (\E u \in V : style[u] = "shown" /\ isCandidate(Cur, u))
           => style[selectPrimaryVideo(Cur)] = "shown"

\* C13: selectPrimaryVideo returns null exactly when there is no candidate;
\* when some candidate is a likely main player the result is one of those and
\* no likely main player among the candidates has a larger area; when none is,
\* the result is a candidate and no candidate has a larger area.
C13_Candidates == {getCandidateVideos(Cur)[k] : k \in 1..Len(getCandidateVideos(Cur))}
C13_Likely == {v \in C13_Candidates : isLikelyMainPlayer(Cur, v)}
C13_SelectionContract ==
  LET r == selectPrimaryVideo(Cur) IN
  /\ (r = Null) <=> (C13_Candidates = {})
  /\ C13_Likely # {} =>
       r \in C13_Likely /\ \A u \in C13_Likely : area(Cur, r) >= area(Cur, u)
  /\ (C13_Candidates # {} /\ C13_Likely = {}) =>
       r \in C13_Candidates /\ \A u \in C13_Candidates : area(Cur, r) >= area(Cur, u)
\* a likely main player was selected, and recorded as primary by a pass, over a
\* larger candidate that is not one
C13_Witness ==
  /\ C13_Likely # {}
  /\ \E u \in C13_Candidates \ C13_Likely : area(Cur, u) > area(Cur, selectPrimaryVideo(Cur))
  /\ indicatorPrimaryVideo = selectPrimaryVideo(Cur)
  /\ overlays = 1

\* C14: when several elements of the selection pool share the maximal area,
\* selectPrimaryVideo returns the one that comes first in iteration order.
C14_FirstOnTie ==
  LET candidates == getCandidateVideos(Cur)
      mainLike == SelectSeq(candidates, LAMBDA v : isLikelyMainPlayer(Cur, v))
      pool == IF Len(mainLike) > 0 THEN mainLike ELSE candidates
      top(k) == \A j \in 1..Len(pool) : area(Cur, pool[k]) >= area(Cur, pool[j])
  IN \A k \in 1..Len(pool) :
       (top(k) /\ \A j \in 1..(k - 1) : ~top(j)) => selectPrimaryVideo(Cur) = pool[k]

\* C15: in every controller state, a play event for an element that is a likely
\* main player at that moment leaves that element as the primary when the
\* handler returns, with at most one overlay attached at any moment of the
\* handler and the target rate applied to the element.
C15_PlayMakesPrimary ==
  \A v \in V :
    (mounted[v] /\ kind[v] = "main" /\ phase[v] \in {"unstarted", "paused"}) =>
      LET s == [Begin("play") EXCEPT !.phase[v] = "playing"]
          t == IF isLikelyMainPlayer(s, v) THEN switchActiveVideo(s, v) ELSE s
      IN isLikelyMainPlayer(s, v) =>
           /\ t.indicatorPrimaryVideo = v
           /\ t.peak <= 1
           /\ t.rate[v] = t.currentSpeed

\* C16: no playbackRate write of the controller, immediate or delayed, lands on
\* an element whose duration is Infinity at the moment of the write; a live
\* element is never the result of the selection, and it is not the recorded
\* primary once a discovery pass has seen it live.
C16_LiveUntouched ==
  /\ \A w \in writes : ~w.live
  /\ selectPrimaryVideo(Cur) # Null => ~live[selectPrimaryVideo(Cur)]
  /\ LET pass == findAndSetupVideos(Begin("scan"))
     IN pass.indicatorPrimaryVideo # Null => ~live[pass.indicatorPrimaryVideo]

\* C17: when a callback of the controller has completed, an overlay is attached
\* exactly when the primary reference is set, the indicator is enabled and the
\* primary passes shouldShowIndicatorForVideo (which includes intersecting the
\* viewport).
C17_Callbacks ==
  {"scan", "debounce", "retry", "reconcile", "speedcheck", "ratecorrection",
   "setSpeed", "chord", "settings", "storagewrite", "windowevent", "visibility",
   "urlchange", "urltimeout"}
C17_OverlayIffDisplayable ==
  lastOp \in C17_Callbacks =>
    ((overlays >= 1) <=>
       /\ indicatorPrimaryVideo # Null
       /\ showConstantIndicator
       /\ shouldShowIndicatorForVideo(Cur, indicatorPrimaryVideo))

\* C18: an attached overlay shows the current target rate with one decimal
\* (followed by "x"); setSpeed, a chord and the settings-load callback never
\* leave an overlay with the text of the previous rate.
C18_TextIsTarget == overlays >= 1 => ovText = toFixed1(currentSpeed)
\* a rate-changing operation has moved the target away from the default and
\* the overlay is attached with the new text
C18_Witness ==
  /\ lastOp \in {"setSpeed", "chord", "settings"}
  /\ overlays = 1
  /\ currentSpeed # DEFAULT_SPEED
  /\ ovText = toFixed1(currentSpeed)

\* C19: a chord pressed with Ctrl (no Alt, no Meta) outside a text field sets
\* the target rate to min(16, round2(current + 0.1)) for Ctrl+., to
\* max(0.1, round2(current - 0.1)) for Ctrl+,, to min(16, round2(current + 1.0))
\* for Ctrl+Shift+. and to 1.0 for Ctrl+Shift+,; the speed it queues for the
\* settings record is that target, and the write changes the speed field only.
C19_Stated(chord) ==
  CASE chord = "inc" -> Min(16000, round2(currentSpeed + 100))
    [] chord = "dec" -> Max(100, round2(currentSpeed - 100))
    [] chord = "incLarge" -> Min(16000, round2(currentSpeed + 1000))
    [] chord = "reset" -> 1000
C19_ChordSemantics ==
  \A chord \in Chords :
    LET t == onKeyDown(Begin("chord"), chordEvent(chord))
        w == writeSettings([t EXCEPT !.storeQueue = <<t.storeQueue[Len(t.storeQueue)]>>])
    IN /\ t.currentSpeed = C19_Stated(chord)
       /\ t.storeQueue = Append(storeQueue, t.currentSpeed)
       /\ w.store = [store EXCEPT !.present = TRUE, !.speed = t.currentSpeed]

\* C20: a keydown whose target is an INPUT, a TEXTAREA or a contenteditable
\* element, or with Alt or Meta held, or without Ctrl, changes nothing: target
\* rate, playback rates, indicator settings, overlay, stored settings and the
\* pending storage writes are as before, and neither preventDefault nor
\* stopPropagation is called.
C20_Ignored(e) == isInput(e.target) \/ e.altKey \/ e.metaKey \/ ~e.ctrlKey
C20_IgnoredKeyChangesNothing ==
  \A e \in KeyEvents :
    C20_Ignored(e) => onKeyDown(Begin("chord"), e) = Begin("chord")
\* a chord has been handled, an overlay is attached, and in this state a
\* keydown from a text field is ignored where the same keys pressed outside it
\* would act
C20_Witness ==
  /\ lastOp = "chord" /\ fx.prevented = 1 /\ fx.stopped = 1 /\ overlays = 1
  /\ \E e \in KeyEvents :
       /\ isInput(e.target) /\ e.ctrlKey /\ ~e.altKey /\ ~e.metaKey /\ e.key = "period"
       /\ onKeyDown(Begin("chord"), e) = Begin("chord")
       /\ onKeyDown(Begin("chord"), [e EXCEPT !.target = "BODY"]) # Begin("chord")

\* C21: when setSpeed has run on a page with tracked videos of different sizes, every
\* tracked video that is in the document and not live plays at the target rate,
\* and an attached overlay sits on the tracked video with the largest area.
C21_SeveralSizes ==
  \E u, v \in videos : contains(Cur, u) /\ contains(Cur, v) /\ area(Cur, u) # area(Cur, v)
C21_AllSameRate ==
  (lastOp = "setSpeed" /\ C21_SeveralSizes) =>
    /\ \A v \in videos : (contains(Cur, v) /\ ~live[v]) => rate[v] = currentSpeed
    /\ overlays >= 1 =>
         /\ overlays = 1
         /\ \A u \in videos : contains(Cur, u) => area(Cur, ovVideo) >= area(Cur, u)

\* C22: in every controller state, and whichever element accesses fail
\* (bounding box read, playbackRate write, containment check), setSpeed,
\* getCurrentSpeed and hasPrimaryVideo return without throwing.
C22_NeverThrows ==
  \A f \in Faults :
    /\ ~getCurrentSpeedThrows(Cur, f)
    /\ ~hasPrimaryVideoThrows(Cur, f)
    /\ \A show \in BOOLEAN : ~setSpeedThrows(Cur, show, f)

\* C23: once the content script's settings load has completed, whatever the
\* stored record holds, the target rate is within [0.1, 16] and the indicator
\* position is one of the five positions.
C23_SettingsNormal ==
  (lastOp = "settings" /\ ~loadPending) =>
    /\ SPEED_MIN <= currentSpeed /\ currentSpeed <= SPEED_MAX
    /\ indicatorPosition \in Positions
\* the same for the two readers that normalize: whatever value is stored, the
\* service worker's and the popup's reading give a speed within [0.1, 16],
\* boolean saveSpeed and showIndicator and one of the five positions
C23_ReadersNormalize ==
  \A raw \in RawSettings :
    isNormalized(migrateSettings(raw)) /\ isNormalized(popupMigrateSettings(raw))

\* C24: when the settings read reports an error, the storage callback leaves
\* the controller exactly as the callback for an empty store would: target
\* rate 1.0, Save Speed off, the indicator settings untouched (enabled and
\* top-left as constructed); discovery, primary selection and enforcement give
\* the same result as with an empty store; and init has started the observers,
\* the first discovery pass and the timers while the read is still pending.
C24_OnError(s) == [s EXCEPT !.store = StoreError]
C24_OnEmpty(s) == [s EXCEPT !.store = StoreNone]
C24_ErrorAsEmptyStore ==
  LET s == [Begin("settings") EXCEPT !.loadPending = FALSE]
      e == loadSavedSettings(C24_OnError(s))
      n == loadSavedSettings(C24_OnEmpty(s))
  IN /\ C24_OnEmpty(e) = n
     /\ e.currentSpeed = DEFAULT_SPEED
     /\ e.saveSpeedEnabled = saveSpeedEnabled
     /\ e.showConstantIndicator = showConstantIndicator
     /\ e.indicatorPosition = indicatorPosition
     /\ C24_OnEmpty(findAndSetupVideos(C24_OnError(Cur))) = findAndSetupVideos(C24_OnEmpty(Cur))
     /\ C24_OnEmpty(globalSpeedCheck(C24_OnError(Cur))) = globalSpeedCheck(C24_OnEmpty(Cur))
     /\ selectPrimaryVideo(C24_OnError(Cur)) = selectPrimaryVideo(C24_OnEmpty(Cur))
     /\ (store.err /\ lastOp = "settings" /\ ~loadPending) =>
          currentSpeed = DEFAULT_SPEED /\ ~saveSpeedEnabled
     /\ lastOp = "init" =>
          /\ loadPending /\ observer /\ observing /\ urlChangeObserver
          /\ speedCheckIntervalId /\ speedTimers = 1
          /\ scanIntervalId /\ scanTimers = 1 /\ retryPending
          /\ showConstantIndicator /\ indicatorPosition = "top-left"
          /\ currentSpeed = DEFAULT_SPEED
          /\ \A v \in V : (isCandidate(Cur, v) /\ contains(Cur, v)) => v \in videos
\* the read failed on a page with a video: the callback wrote 1.0 to the
\* primary and the overlay is up
C24_Witness ==
  /\ store.err /\ lastOp = "settings" /\ ~loadPending
  /\ overlays = 1 /\ currentSpeed = DEFAULT_SPEED
  /\ \E w \in writes : w.value = DEFAULT_SPEED /\ w.primary

\* C25: after the settings load has completed on a store without a record or
\* with Save Speed off, the target rate is 1.0 whatever speed the record
\* holds, and in any state the load callback sets a target other than 1.0 only
\* from a record with Save Speed on; the service worker's page-load handler
\* schedules a speed for the tab only when the stored saveSpeed is true.
C25_Stored ==
  RawValues \cup RawRecords(RawSpeeds, RawFlags, {JsBoolean(TRUE)}, {JsString("center")})
C25_SaveSpeedOff(st) == st.err \/ ~st.present \/ ~st.saveSpeed
C25_OnlyWhenSaveSpeedOn ==
  /\ (lastOp = "settings" /\ ~loadPending /\ C25_SaveSpeedOff(store)) =>
       currentSpeed = DEFAULT_SPEED
  /\ \A st \in Stores :
       LET s == loadSavedSettings([Begin("settings") EXCEPT !.loadPending = FALSE,
                                                            !.store = st])
       IN /\ C25_SaveSpeedOff(st) => s.currentSpeed = DEFAULT_SPEED
          /\ \A w \in s.writes : w.value # DEFAULT_SPEED => st.saveSpeed
  /\ \A raw \in C25_Stored, lastError \in BOOLEAN :
       tabsOnUpdated(lastError, raw).apply =>
         ~lastError /\ raw.object /\ raw.saveSpeed = JsBoolean(TRUE)
\* the record holds 3.0 with Save Speed off, the load wrote 1.0 to the video,
\* and the page-load handler leaves the tab alone for such a record while it
\* would apply the speed of the same record with Save Speed on
C25_Witness ==
  /\ lastOp = "settings" /\ ~loadPending
  /\ store.present /\ ~store.saveSpeed /\ store.speed = 3000
  /\ currentSpeed = DEFAULT_SPEED
  /\ \E w \in writes : w.value = DEFAULT_SPEED
  /\ \E raw \in C25_Stored :
       /\ raw.object /\ raw.speed = JsNumber(2000) /\ raw.saveSpeed = JsBoolean(FALSE)
       /\ ~tabsOnUpdated(FALSE, raw).apply
       /\ tabsOnUpdated(FALSE, [raw EXCEPT !.saveSpeed = JsBoolean(TRUE)]).apply

\* C26: a safelySetSpeed call makes at most 6 injections; while it waits, the
\* armed timeout is 250 ms times the number of attempts made; it resolves true
\* exactly when its last attempt reported "ok" and false only after 6
\* attempts none of which did; it settles in no other way; an attempt calls
\* controller.setSpeed only when it found the controller and a non-empty
\* tracked set; no injection follows an "ok"; the popup's copy takes the same
\* steps as the shared helper; and every call resolves.
C26_AsCopy(s, copy) == [s EXCEPT !.exec.copy = copy]
C26_Bounded ==
  /\ exec.made <= 6
  /\ exec.pc = "backoff" => exec.made < 6 /\ exec.wait = 250 * exec.made
  /\ exec.resolved \in {"pending", "true", "false"}
  /\ exec.pc = "resolved" <=> exec.resolved # "pending"
  /\ exec.resolved = "true" <=> exec.last = "ok"
  /\ exec.resolved = "false" => exec.made = 6
  /\ exec.invoked => exec.sawController /\ exec.sawVideos
  /\ exec.pc = "inject" =>
       \A throws \in BOOLEAN :
         C26_AsCopy(safelyAttempt(C26_AsCopy(Begin("inject"), "popup"), throws), "worker")
           = safelyAttempt(C26_AsCopy(Begin("inject"), "worker"), throws)
  /\ exec.pc = "backoff" =>
       C26_AsCopy(safelyResume(C26_AsCopy(Begin("backoff"), "popup")), "worker")
         = safelyResume(C26_AsCopy(Begin("backoff"), "worker"))
C26_NoAttemptAfterOk == exec.last = "ok" => exec'.made = exec.made
C26_SafelySetSpeed ==
  /\ []C26_Bounded
  /\ [][C26_NoAttemptAfterOk]_vars
  /\ (exec.pc # "idle") ~> (exec.pc = "resolved")
\* the popup's call found no tracked video five times, waited 1250 ms before
\* its sixth attempt, and that attempt applied the speed
C26_Witness ==
  /\ exec.copy = "popup" /\ exec.made = 6 /\ exec.attempt = 5
  /\ exec.resolved = "true" /\ exec.invoked
  /\ currentSpeed = clamp(round2(exec.call[1]))

\* C27: with the indicator enabled, whenever hasPrimaryVideo() is true an
\* indicator update leaves exactly one overlay attached, on the video
\* hasPrimaryVideo() found; and whenever an overlay is attached
\* hasPrimaryVideo() is true.
C27_UpdateShowsPrimary ==
  (speedTuneController /\ showConstantIndicator /\ hasPrimaryVideo(Cur)) =>
    LET u == updateIndicators(Begin("update"))
    IN u.overlays = 1 /\ u.ovVideo = getPrimaryVideoForIndicator(Cur)
C27_OverlayMeansPrimary == overlays >= 1 => hasPrimaryVideo(Cur)
C27_SameDecision == C27_UpdateShowsPrimary /\ C27_OverlayMeansPrimary

\* C28: a checkPrimaryVideo call makes at most 5 probes, the retry timeout it
\* waits on is 250 ms, it returns true only when its last probe answered that
\* a primary exists, and while the time its five probes would cover has not
\* gone by it has not returned false for a tab that has a primary video.
C28_RetryWindowOpen == probe.elapsed < 4 * 250
C28_NoEarlyNoVideo ==
  /\ probe.made <= 5
  /\ probe.pc = "wait" => probe.wait = 250 /\ probe.made < 5
  /\ probe.returned = "true" => probe.last = "yes"
  /\ (probe.returned = "false" /\ C28_RetryWindowOpen) => ~hasPrimaryVideo(Cur)
\* every call returns
C28_Returns == (probe.pc # "idle") ~> (probe.pc = "returned")

\* C29: an element is in the tracked set (videos) exactly when the controller
\* holds a listener entry for it (videoListeners) and its listeners are
\* attached to the element.
C29_TrackedIffListening ==
  \A v \in V : v \in videos <=> (v \in videoListeners /\ v \in attached)

\* C30: whenever the primary reference is set, the element it names is in the
\* document, passes the candidate filter (top-level document, not live, not
\* ended, at least 380x214) and is in the tracked set.
C30_PrimaryIsTrackedCandidate ==
  indicatorPrimaryVideo # Null =>
    /\ contains(Cur, indicatorPrimaryVideo)
    /\ isCandidate(Cur, indicatorPrimaryVideo)
    /\ width(Cur, indicatorPrimaryVideo) >= 380 /\ height(Cur, indicatorPrimaryVideo) >= 214
    /\ indicatorPrimaryVideo \in videos

\* C31: the primary reference goes from one element to a different element
\* only in a callback that runs switchActiveVideo (the play listener, the
\* reconcile interval); no other callback re-points it.
C31_Repointed ==
  /\ indicatorPrimaryVideo # Null /\ indicatorPrimaryVideo' # Null
  /\ indicatorPrimaryVideo' # indicatorPrimaryVideo
C31_OnlySwitchRepoints ==
  [][C31_Repointed => lastOp' \in {"play", "reconcile"}]_vars

\* C32: when the reconcile interval runs while the recorded primary fails
\* eligibility or the should-display test, or is not the element the selection
\* yields, the pass ends either with no primary and no overlay, or with one
\* overlay on a recorded primary that is a candidate in the document and
\* passes the should-display test.
C32_Fit(s, v) ==
  contains(s, v) /\ isCandidate(s, v) /\ shouldShowIndicatorForVideo(s, v)
C32_Stale ==
  /\ reconTimers > 0
  /\ indicatorPrimaryVideo # Null
  /\ \/ ~C32_Fit(Cur, indicatorPrimaryVideo)
     \/ selectPrimaryVideo(Cur) # indicatorPrimaryVideo
C32_ResolvedInPass ==
  C32_Stale =>
    LET r == reconcile(Begin("reconcile"))
    IN \/ r.indicatorPrimaryVideo = Null /\ r.overlays = 0 /\ ~r.constantIndicator
       \/ /\ r.indicatorPrimaryVideo # Null /\ r.overlays = 1
          /\ r.ovVideo = r.indicatorPrimaryVideo
          /\ C32_Fit(r, r.indicatorPrimaryVideo)

\* C33: at most one debounce timeout is pending and the timer field is set
\* exactly while one is; every scheduleFindVideos call leaves one timeout
\* pending with the full 250 ms ahead of it; the debounced discovery pass runs
\* only when 250 ms have gone by since the last call and leaves no timeout
\* pending, so a burst gets at most one pass; and the pass does run, unless
\* destroy() cleared the timeout first.
C33_OneTimer ==
  /\ debounceTimers <= 1
  /\ debounceTimer <=> debounceTimers = 1
  /\ ~debounceTimer => debounceLeft = 0
  /\ debounceTimer => lastOp # "debounce"
C33_Call ==
  \/ lastOp' = "retry"
  \/ lastOp' = "visibility" /\ ~hidden'
  \/ lastOp' = "mount" /\ observing
C33_Step ==
  /\ C33_Call => debounceTimer' /\ debounceTimers' = 1 /\ debounceLeft' = 250
  /\ lastOp' = "debounce" => debounceLeft = 0 /\ ~debounceTimer' /\ debounceTimers' = 0
C33_PassUnlessDestroyed ==
  /\ []C33_OneTimer
  /\ [][C33_Step]_vars
  /\ debounceTimer ~> (lastOp \in {"debounce", "destroy", "beforeunload"})
\* as stated: every burst gets its pass
C33_OnePassPerBurst ==
  /\ []C33_OneTimer
  /\ [][C33_Step]_vars
  /\ debounceTimer ~> (lastOp = "debounce")
C33_Witness ==
  /\ lastOp = "debounce" /\ speedTuneController
  /\ ops = MaxOps
  /\ \E v \in V : v \in videos /\ mounted[v]

\* C34: while the tab is hidden no callback of the rate-enforcement interval,
\* the reconcile interval or the periodic scan does anything; and the
\* visibilitychange to visible leaves the rate-enforcement interval and the
\* periodic scan armed and a discovery pass scheduled.
C34_TimerPass == lastOp' \in {"speedcheck", "reconcile", "scan"}
C34_Resumed ==
  scanTimers' = 1 /\ scanIntervalId' /\ speedTimers' = 1 /\ speedCheckIntervalId'
  /\ debounceTimer' /\ debounceTimers' = 1
C34_HiddenSuspends ==
  [][/\ hidden => ~C34_TimerPass
     /\ (lastOp' = "visibility" /\ hidden /\ ~hidden') => C34_Resumed]_vars

\* C35: the array getAllVideos returns has no duplicates; it holds every
\* element found by a source (document query, shadow traversal, either iframe,
\* generic selectors) that did not fail and only elements some source finds;
\* with nothing failing it holds exactly the videos of the page.
C35_Range(seq) == {seq[k] : k \in 1..Len(seq)}
C35_Sources == {"document", "shadow", "frame1", "frame2", "generic"}
C35_Finds(src) ==
  CASE src = "document" -> C35_Range(documentVideos(Cur, {}))
    [] src = "shadow" -> C35_Range(traverseShadowDOM(Cur, {}))
    [] src = "frame1" -> C35_Range(at(Cur, {"frame1"}))
    [] src = "frame2" -> C35_Range(at(Cur, {"frame2"}))
    [] src = "generic" -> C35_Range(getPlatformSpecificVideos(Cur, {}))
C35_Failed(src) ==
  CASE src = "document" -> "query" \in scan.faults
    [] src = "shadow" -> scan.faults \cap {"walk", "host", "inner"} # {}
    [] src = "frame1" -> scan.faults \cap {"frames", "frame1"} # {}
    [] src = "frame2" -> scan.faults \cap {"frames", "frame2"} # {}
    [] src = "generic" -> scan.faults \cap {"generic", "fallback"} # {}
C35_Intact == UNION {C35_Finds(src) : src \in {x \in C35_Sources : ~C35_Failed(x)}}
C35_Returned == lastOp = "getAllVideos"
C35_NoDuplicates ==
  \A j, k \in 1..Len(scan.result) : scan.result[j] = scan.result[k] => j = k
C35_FaultIsolated ==
  C35_Returned =>
    /\ C35_NoDuplicates
    /\ C35_Intact \subseteq C35_Range(scan.result)
    /\ C35_Range(scan.result) \subseteq UNION {C35_Finds(src) : src \in C35_Sources}
    /\ scan.faults = {} => C35_Range(scan.result) = {v \in V : mounted[v]}
    /\ (scan.faults = {} /\ \A v \in V : scan.place[v] \notin {"shadow", "nested"}) =>
         C35_Range(scan.result) = C35_Range(getAllVideos(Cur))
\* as stated: exactly the union of what the sources that did not fail find
C35_ExactlyIntactSources ==
  C35_Returned => C35_NoDuplicates /\ C35_Range(scan.result) = C35_Intact
C35_Witness ==
  /\ C35_Returned
  /\ scan.faults = {"frames", "host"}
  /\ Len(scan.result) = 2

\* C36: when setSpeed or a chord has set the target rate while the storage
\* read issued by init was still pending, the completion of that read leaves
\* the target rate and the primary's playbackRate as they were.
C36_SetWhileLoading == loadPending /\ lastOp \in {"setSpeed", "chord"}
C36_LoadKeepsUserRate ==
  [][(C36_SetWhileLoading /\ lastOp' = "settings") =>
       /\ currentSpeed' = currentSpeed
       /\ \A v \in V : v = activeVideo(Cur) => rate'[v] = rate[v]]_vars

\* C37: at most one periodic-scan interval, one rate-enforcement interval, one
\* reconcile interval and one scroll/resize handler pair are live, each of the
\* first two exactly while its field is set, and the reconcile interval and
\* the handler pair exactly while the overlay exists.
C37_NoLeak ==
  /\ scanTimers <= 1 /\ (scanTimers = 1 <=> scanIntervalId)
  /\ speedTimers <= 1 /\ (speedTimers = 1 <=> speedCheckIntervalId)
  /\ reconTimers <= 1 /\ (reconTimers = 1 <=> indicatorRecomputeIntervalId)
  /\ winHandlers <= 1 /\ winHandlers = constantIndicatorUpdateHandlers
  /\ constantIndicator <=> overlays = 1
  /\ reconTimers = 1 <=> constantIndicator
  /\ winHandlers = 1 <=> constantIndicator
\* a primary switch has removed one overlay and created the next
C37_Witness ==
  /\ lastOp = "play" /\ fx.removes = 1 /\ fx.clears = 1
  /\ overlays = 1 /\ reconTimers = 1 /\ winHandlers = 1

\* C38: when the play listener has just made an element the primary, a
\* reconcile tick or a discovery pass after which that element is still
\* playing, a candidate and in the viewport leaves it the primary.
C38_MadePrimaryByPlay ==
  lastOp = "play" /\ indicatorPrimaryVideo # Null /\ phase[indicatorPrimaryVideo] = "playing"
C38_Pass == lastOp' \in {"reconcile", "debounce", "scan", "urltimeout"}
C38_StillFit(v) ==
  phase'[v] = "playing" /\ mounted'[v] /\ ~live'[v] /\ inView'[v]
  /\ isCandidate(Cur, v) /\ shouldShowIndicatorForVideo(Cur, v)
C38_PlayedStaysPrimary ==
  [][(C38_MadePrimaryByPlay /\ C38_Pass /\ C38_StillFit(indicatorPrimaryVideo)) =>
       indicatorPrimaryVideo' = indicatorPrimaryVideo]_vars

\* C39: for each chord, with the settings loaded and no storage write in
\* flight, when the command handler's call reaches the tab's controller at
\* its first injection, the target rate it leaves is the target
\* rate the keydown handler leaves for the same chord in the same state: the
\* previous target rate changed by the chord's step and clamped.
C39_CommandOf(chord) ==
  CASE chord = "inc" -> "increase-speed-small"
    [] chord = "dec" -> "decrease-speed-small"
    [] chord = "incLarge" -> "increase-speed-large"
    [] chord = "reset" -> "reset-speed"
C39_ViaCommand(chord) ==
  safelyAttempt(executeSpeedCommand(Begin("command"), C39_CommandOf(chord), FALSE), FALSE)
C39_ViaKey(chord) == onKeyDown(Begin("chord"), chordEvent(chord))
C39_CommandAsKey ==
  \A chord \in Chords :
    (/\ ~store.err /\ ~loadPending /\ storeQueue = <<>>
     /\ C39_ViaCommand(chord).exec.last = "ok") =>
      /\ C39_ViaCommand(chord).currentSpeed = C39_ViaKey(chord).currentSpeed
      /\ C39_ViaCommand(chord).currentSpeed = chordSpeed(Cur, chord)


\* C40: a step that is a call of hasPrimaryVideo(), getCurrentSpeed() or
\* selectPrimaryVideo() leaves every controller field, every element, the
\* overlay, the listener table and every timer as they were, writes no
\* playbackRate and releases nothing; the caller gets the value the query
\* computes; and a setSpeed call or a discovery pass made after the query ends
\* in the state it would have ended in without it.
C40_Queries == {"hasPrimaryVideo", "getCurrentSpeed", "selectPrimaryVideo"}
C40_Apart(s) ==
  [s EXCEPT !.answer = NoAnswer, !.lastOp = "", !.peak = 0, !.writes = {}, !.fx = ZeroFx]
C40_Later(s) ==
  <<findAndSetupVideos(C40_Apart(s)), setSpeed(C40_Apart(s), 2004, TRUE, "center")>>
C40_QueriesChangeNothing ==
  [][lastOp' \in C40_Queries =>
       /\ C40_Apart(Cur') = C40_Apart(Cur)
       /\ writes' = {} /\ fx' = ZeroFx /\ peak' = overlays
       /\ ops' = ops
       /\ answer'.op = lastOp'
       /\ answer'.video = IF lastOp' = "selectPrimaryVideo"
                          THEN selectPrimaryVideo(Cur) ELSE Null
       /\ answer'.has = (lastOp' = "hasPrimaryVideo" /\ hasPrimaryVideo(Cur))
       /\ answer'.speed = IF lastOp' = "getCurrentSpeed" THEN currentSpeed ELSE 0
       /\ C40_Later(Cur') = C40_Later(Cur)]_vars
\* selectPrimaryVideo() was asked while an overlay follows one video and
\* another one is the larger candidate, after the user changed the speed
C40_Witness ==
  /\ lastOp = "selectPrimaryVideo"
  /\ answer.video # Null
  /\ indicatorPrimaryVideo # Null
  /\ answer.video # indicatorPrimaryVideo
  /\ overlays = 1
  /\ currentSpeed # 2000

====
